---- MODULE Spec2Model ----
EXTENDS Integers, Sequences, FiniteSets, TLC

(***************************************************************************)
(* Verification model of the CrewAI workflow CLI (src/cli.py): the         *)
(* slot-filling dialogue of CrewAIWorkflowCLI.                             *)
(*                                                                         *)
(* A Python str is a sequence of one-character strings, so that the        *)
(* regular expressions and the substring tests of the code are computed    *)
(* character by character.  An optional value (None or a str) is a         *)
(* sequence of length 0 (None) or 1 (the str).                             *)
(***************************************************************************)

\* ------------------------------------------------------------------ text

None == <<>>
Some(s) == <<s>>

\* Python truthiness of an Optional[str]: neither None nor "".
Truthy(o) == o # None /\ o[1] # <<>>

LowerSeq == <<"a","b","c","d","e","f","g","h","i","j","k","l","m","n","o","p","q","r","s","t","u","v","w","x","y","z">>
UpperSeq == <<"A","B","C","D","E","F","G","H","I","J","K","L","M","N","O","P","Q","R","S","T","U","V","W","X","Y","Z">>
LowerLetters == {LowerSeq[i] : i \in 1..26}
UpperLetters == {UpperSeq[i] : i \in 1..26}
Letters == LowerLetters \cup UpperLetters
Digits == {"0", "1", "2", "3", "4", "5", "6", "7", "8", "9"}
Alnum == Letters \cup Digits
\* \w and \s of the re module, over the characters a console line can hold
WordCh == Alnum \cup {"_"}
SpaceCh == {" "}

ToLowerMap == [c \in UpperLetters |-> LowerSeq[CHOOSE i \in 1..26 : UpperSeq[i] = c]]
LowerChar(c) == IF c \in UpperLetters THEN ToLowerMap[c] ELSE c
\* str.lower()
Lower(s) == [i \in 1..Len(s) |-> LowerChar(s[i])]

Max(S) == CHOOSE x \in S : \A y \in S : y <= x
Min(S) == CHOOSE x \in S : \A y \in S : x <= y

\* pat occurs in s at index i (1-based)
MatchAt(s, i, pat) ==
    /\ i >= 1
    /\ i + Len(pat) - 1 <= Len(s)
    /\ \A k \in 1..Len(pat) : s[i + k - 1] = pat[k]

\* Python's `pat in s`
Contains(s, pat) == \E i \in 1..(Len(s) - Len(pat) + 1) : MatchAt(s, i, pat)

\* any(k in s for k in ks)
ContainsAny(s, ks) == \E k \in ks : Contains(s, k)

\* str.endswith
EndsWith(s, pat) == MatchAt(s, Len(s) - Len(pat) + 1, pat)

\* the index after the longest run of characters of cs that starts at i
RunEnd(s, i, cs) ==
    CHOOSE j \in i..(Len(s) + 1) :
        /\ \A k \in i..(j - 1) : s[k] \in cs
        /\ (j = Len(s) + 1 \/ s[j] \notin cs)

SkipSpaces(s, i) == RunEnd(s, i, SpaceCh)

\* str.lstrip(chars), str.rstrip(chars)
LStripSet(s, cs) == SubSeq(s, RunEnd(s, 1, cs), Len(s))
RStripSet(s, cs) ==
    LET keep == {i \in 1..Len(s) : s[i] \notin cs}
    IN IF keep = {} THEN <<>> ELSE SubSeq(s, 1, Max(keep))

\* str.strip(chars)
StripSet(s, cs) == RStripSet(LStripSet(s, cs), cs)
\* str.strip()
Strip(s) == StripSet(s, SpaceCh)

\* str.split(): the maximal runs of non-space characters, in order
Split(s) ==
    LET starts == {i \in 1..Len(s) :
                      s[i] \notin SpaceCh /\ (i = 1 \/ s[i - 1] \in SpaceCh)}
        Nth(k) == CHOOSE i \in starts : Cardinality({j \in starts : j < i}) = k - 1
        WordEnd(i) == Min({j \in i..Len(s) : j = Len(s) \/ s[j + 1] \in SpaceCh})
    IN [k \in 1..Cardinality(starts) |-> SubSeq(s, Nth(k), WordEnd(Nth(k)))]

\* ------------------------------------------------- regular expressions

\* \b between index i-1 and index i
IsWordAt(s, i) == i >= 1 /\ i <= Len(s) /\ s[i] \in WordCh
Boundary(s, i) == IsWordAt(s, i - 1) # IsWordAt(s, i)

\* email_pattern = \b[A-Za-z0-9._%+-]+@[A-Za-z0-9.-]+\.[A-Z|a-z]{2,}\b
LocalCh == Alnum \cup {".", "_", "%", "+", "-"}
DomCh == Alnum \cup {".", "-"}
TldCh == Letters \cup {"|"}

\* The <<d, e>> with which email_pattern matches s[i..e], d the index of the
\* dot before the top-level domain.
EmailCands(s, i) ==
    LET a == RunEnd(s, i, LocalCh)
    IN IF ~Boundary(s, i) \/ a = i \/ a > Len(s) THEN {}
       ELSE IF s[a] # "@" THEN {}
       ELSE LET z == RunEnd(s, a + 1, DomCh)
            IN {de \in ((a + 2)..(z - 1)) \X ((a + 4)..Len(s)) :
                   /\ s[de[1]] = "."
                   /\ de[2] >= de[1] + 2
                   /\ \A k \in (de[1] + 1)..de[2] : s[k] \in TldCh
                   /\ Boundary(s, de[2] + 1)}

\* The end of the match at i: the greedy domain first (the last dot), then the
\* greedy top-level domain.
EmailEnd(s, i) ==
    LET c == EmailCands(s, i)
        d == Max({de[1] : de \in c})
    IN Max({de[2] : de \in {x \in c : x[1] = d}})

\* re.search(email_pattern, text): group(0) of the leftmost match, or None.
\* re.findall(email_pattern, text)[0] is the same string.
EmailSearch(s) ==
    LET starts == {i \in 1..Len(s) : EmailCands(s, i) # {}}
    IN IF starts = {} THEN None
       ELSE LET i == Min(starts) IN Some(SubSeq(s, i, EmailEnd(s, i)))

\* (would\s+be|is|:|-) at index j of s: the index after it, or 0
LabelAltEnd(s, j) ==
    LET l == Lower(s)
        b == SkipSpaces(s, j + 5)
    IN IF MatchAt(l, j, <<"w","o","u","l","d">>) /\ b > j + 5 /\ MatchAt(l, b, <<"b","e">>) THEN b + 2
       ELSE IF MatchAt(l, j, <<"i","s">>) THEN j + 2
       ELSE IF MatchAt(s, j, <<":">>) \/ MatchAt(s, j, <<"-">>) THEN j + 1
       ELSE 0

\* subject\s*(would\s+be|is|:|-) at index p of s, ignoring case: the index
\* after it, or 0
SubjectLabelEnd(s, p) ==
    IF MatchAt(Lower(s), p, <<"s","u","b","j","e","c","t">>) THEN LabelAltEnd(s, SkipSpaces(s, p + 7)) ELSE 0

\* re.sub(r'^(subject\s*(would\s+be|is|:|-)\s*)', '', subj, flags=re.IGNORECASE)
StripSubjectPrefix(s) ==
    LET e == SubjectLabelEnd(s, 1)
    IN IF e = 0 THEN s ELSE SubSeq(s, SkipSpaces(s, e), Len(s))

\* The subject _assign_email_field_from_text takes from an answer: the
\* stripped line without its label and without trailing spaces and commas.
SubjectFromAnswer(text) ==
    RStripSet(Strip(StripSubjectPrefix(Strip(text))), {" ", ","})

\* (?:\s*,|\s*with|\s*$) at index i; the deterministic extraction has the
\* `with` alternative, _extract_email_info has not.
SubjectTerm(s, i, withKw) ==
    LET t == SkipSpaces(s, i)
    IN \/ t > Len(s)
       \/ MatchAt(s, t, <<",">>)
       \/ (withKw /\ MatchAt(Lower(s), t, <<"w","i","t","h">>))

\* The groups <<first, last>> of ([^,.\n]+?) with which
\* subject\s*(?:would\s+be|is|:|-)\s*([^,.\n]+?)(?:\s*,|\s*with|\s*$)
\* matches at index p.
SubjectGroups(s, p, withKw) ==
    LET e == SubjectLabelEnd(s, p)
    IN IF e = 0 THEN {}
       ELSE {g \in (e..SkipSpaces(s, e)) \X (e..Len(s)) :
                /\ g[2] >= g[1]
                /\ \A k \in g[1]..g[2] : s[k] \notin {",", ".", "\n"}
                /\ SubjectTerm(s, g[2] + 1, withKw)}

\* re.search of that pattern: group(1).strip() of the leftmost match (the
\* greedy \s* before the group first, then the shortest group), or None.
SubjectSearch(s, withKw) ==
    LET starts == {p \in 1..Len(s) : SubjectGroups(s, p, withKw) # {}}
    IN IF starts = {} THEN None
       ELSE LET gs == SubjectGroups(s, Min(starts), withKw)
                a == Max({g[1] : g \in gs})
                b == Min({g[2] : g \in {x \in gs : x[1] = a}})
            IN Some(Strip(SubSeq(s, a, b)))

\* re.sub(r'^(name\s*(is)?\s*[-:]?)', '', name, flags=re.IGNORECASE)
StripNamePrefix(s) ==
    LET l == Lower(s)
    IN IF ~MatchAt(l, 1, <<"n","a","m","e">>) THEN s
       ELSE LET j1 == SkipSpaces(s, 5)
                j2 == IF MatchAt(l, j1, <<"i","s">>) THEN j1 + 2 ELSE j1
                j3 == SkipSpaces(s, j2)
                j4 == IF j3 <= Len(s) /\ s[j3] \in {"-", ":"} THEN j3 + 1 ELSE j3
            IN SubSeq(s, j4, Len(s))

\* The name _assign_crm_field_from_text takes from an answer.
NameFromAnswer(text) ==
    StripSet(Strip(StripNamePrefix(Strip(text))), {"\"", "'", " "})

\* (?:\s+and|\s+email|$) at index i
NameTerm(s, i) ==
    LET t == SkipSpaces(s, i)
    IN \/ i = Len(s) + 1
       \/ (t > i /\ (MatchAt(Lower(s), t, <<"a","n","d">>) \/ MatchAt(Lower(s), t, <<"e","m","a","i","l">>)))

\* The groups <<first, last>> of ([A-Za-z\s]+?) with which
\* name[:\s-]+([A-Za-z\s]+?)(?:\s+and|\s+email|$) matches at index p.
NameGroups(s, p) ==
    IF ~MatchAt(Lower(s), p, <<"n","a","m","e">>) THEN {}
    ELSE {g \in ((p + 5)..RunEnd(s, p + 4, {":", " ", "-"})) \X ((p + 5)..Len(s)) :
             /\ g[2] >= g[1]
             /\ \A k \in g[1]..g[2] : s[k] \in Letters \cup SpaceCh
             /\ NameTerm(s, g[2] + 1)}

\* re.search of that pattern: group(1).strip() of the leftmost match, or None
NameSearch(s) ==
    LET starts == {p \in 1..Len(s) : NameGroups(s, p) # {}}
    IN IF starts = {} THEN None
       ELSE LET gs == NameGroups(s, Min(starts))
                a == Max({g[1] : g \in gs})
                b == Min({g[2] : g \in {x \in gs : x[1] = a}})
            IN Some(Strip(SubSeq(s, a, b)))

\* (\d+)\s*(?:bullet\s*)?points? at index i of the lower-cased query: the
\* index after the digits, or 0
PointsDigitsEnd(l, i) ==
    LET r == RunEnd(l, i, Digits)
        t == SkipSpaces(l, r)
    IN IF r > i /\ (\/ MatchAt(l, t, <<"p","o","i","n","t">>)
                    \/ (MatchAt(l, t, <<"b","u","l","l","e","t">>) /\ MatchAt(l, SkipSpaces(l, t + 6), <<"p","o","i","n","t">>)))
       THEN r ELSE 0

\* group(1) of re.search(r'(\d+)\s*(?:bullet\s*)?points?', query_lower), or None
PointsSearch(l) ==
    LET starts == {i \in 1..Len(l) : PointsDigitsEnd(l, i) # 0}
    IN IF starts = {} THEN None
       ELSE Some(SubSeq(l, Min(starts), PointsDigitsEnd(l, Min(starts)) - 1))

\* ------------------------------------------------------------ documents

\* Path.suffix: from the last dot of the file name, "" when there is none
Suffix(name) ==
    LET dots == {i \in 2..Len(name) : name[i] = "."}
    IN IF dots = {} THEN <<>> ELSE SubSeq(name, Max(dots), Len(name))

\* word.strip('.,!?()[]{}":;')
CleanWord(w) ==
    StripSet(w, {".", ",", "!", "?", "(", ")", "[", "]", "{", "}", "\"", ":", ";"})

\* document_extensions of _extract_email_data_deterministic and _extract_email_info
DocumentExtensions == {<<".","t","x","t">>, <<".","m","d">>, <<".","p","d","f">>, <<".","d","o","c">>, <<".","d","o","c","x">>, <<".","j","s","o","n">>, <<".","c","s","v">>}
\* the extensions _process_document_request accepts in a file mention
RequestExtensions == {<<".","t","x","t">>, <<".","m","d">>, <<".","p","d","f">>, <<".","d","o","c">>, <<".","d","o","c","x">>}
\* the suffixes _process_document_request accepts for "any document"
AnyDocumentSuffixes == {<<".","t","x","t">>, <<".","m","d">>, <<".","p","d","f">>}

\* The first entry of documents_dir.iterdir() (dir, in listing order) whose
\* suffix is in exts, or None.
FirstDocument(dir, exts) ==
    LET hits == {i \in 1..Len(dir) : Lower(Suffix(dir[i])) \in exts}
    IN IF hits = {} THEN None ELSE Some(dir[Min(hits)])

\* The first word of the text that, cleaned, looks like a file name with one
\* of exts and names a file of documents_dir, or None.
FirstMentionedFile(text, dir, exts) ==
    LET words == Split(text)
        hits == {i \in 1..Len(words) :
                    LET w == CleanWord(words[i])
                    IN /\ Contains(w, <<".">>)
                       /\ \E x \in exts : EndsWith(Lower(w), x)
                       /\ \E k \in 1..Len(dir) : dir[k] = w}
    IN IF hits = {} THEN None ELSE Some(CleanWord(words[Min(hits)]))

\* ------------------------------------------ deterministic extraction

\* " ".join(content_requirements): the list holds at most two labels
JoinRequirements(parts) ==
    IF Len(parts) = 2 THEN parts[1] \o <<" ">> \o parts[2] ELSE parts[1]

\* The content_requirements list of _extract_email_data_deterministic.
ContentRequirements(query) ==
    LET l == Lower(query)
        n == PointsSearch(l)
        bullets == IF n # None THEN <<n[1] \o <<" ","b","u","l","l","e","t"," ","p","o","i","n","t","s">>>>
                   ELSE IF ContainsAny(l, {<<"b","u","l","l","e","t">>, <<"p","o","i","n","t","s">>, <<"l","i","s","t">>}) THEN <<<<"b","u","l","l","e","t"," ","p","o","i","n","t","s">>>>
                   ELSE <<>>
        kind == IF ContainsAny(l, {<<"s","u","m","m","a","r","y">>, <<"s","u","m","m","a","r","i","z","e">>, <<"s","u","m","m","a","r","i","s","e">>}) THEN <<<<"s","u","m","m","a","r","y">>>>
                ELSE IF ContainsAny(l, {<<"b","r","i","e","f">>, <<"s","h","o","r","t">>, <<"c","o","n","c","i","s","e">>}) THEN <<<<"b","r","i","e","f">>>>
                ELSE IF ContainsAny(l, {<<"h","i","g","h","l","i","g","h","t">>, <<"k","e","y">>, <<"i","m","p","o","r","t","a","n","t">>, <<"m","a","i","n">>}) THEN <<<<"h","i","g","h","l","i","g","h","t","s">>>>
                ELSE IF ContainsAny(l, {<<"o","v","e","r","v","i","e","w">>, <<"i","n","t","r","o">>, <<"i","n","t","r","o","d","u","c","t","i","o","n">>}) THEN <<<<"o","v","e","r","v","i","e","w">>>>
                ELSE <<>>
    IN bullets \o kind

\* _extract_email_data_deterministic(query), dir the listing of documents_dir
ExtractEmailDataDeterministic(query, dir) ==
    [to |-> EmailSearch(query),
     subject |-> SubjectSearch(query, TRUE),
     content_requirement |->
        IF ContentRequirements(query) = <<>> THEN None
        ELSE Some(JoinRequirements(ContentRequirements(query))),
     document_reference |->
        IF Contains(Lower(query), <<"d","o","c","u","m","e","n","t">>) THEN FirstDocument(dir, DocumentExtensions)
        ELSE FirstMentionedFile(query, dir, DocumentExtensions)]

\* --------------------------------------------------------------- routing

\* process_user_request with the email test made before the CRM test
RouteOfEmailFirst(query) ==
    LET l == Lower(query)
    IN IF \/ ContainsAny(l, {<<"s","e","n","d"," ","e","m","a","i","l">>, <<"e","m","a","i","l"," ","t","o">>, <<"s","e","n","d"," ","m","a","i","l">>})
          \/ /\ ContainsAny(l, {<<"e","m","a","i","l">>, <<"s","e","n","d">>, <<"m","a","i","l">>})
             /\ ~ContainsAny(l, {<<"c","o","n","t","a","c","t">>, <<"c","r","m">>, <<"p","i","p","e","d","r","i","v","e">>})
       THEN "email"
       ELSE IF /\ ContainsAny(l, {<<"c","o","n","t","a","c","t">>, <<"c","r","m">>, <<"p","i","p","e","d","r","i","v","e">>, <<"a","d","d">>})
               /\ ~ContainsAny(l, {<<"s","e","n","d"," ","e","m","a","i","l">>, <<"e","m","a","i","l"," ","t","o">>})
       THEN "crm"
       ELSE IF ContainsAny(l, {<<"c","a","l","e","n","d","a","r">>, <<"m","e","e","t","i","n","g">>, <<"s","c","h","e","d","u","l","e">>, <<"a","v","a","i","l","a","b","l","e">>, <<"c","a","l","e","n","d","l","y">>})
       THEN "calendly"
       ELSE "general"

\* The branch process_user_request takes for a query: the first of the CRM,
\* email and calendar tests that holds, else the general answer.
RouteOf(query) ==
    LET l == Lower(query)
    IN IF /\ ContainsAny(l, {<<"c","o","n","t","a","c","t">>, <<"c","r","m">>, <<"p","i","p","e","d","r","i","v","e">>, <<"a","d","d">>})
          /\ ~ContainsAny(l, {<<"s","e","n","d"," ","e","m","a","i","l">>, <<"e","m","a","i","l"," ","t","o">>})
       THEN "crm"
       ELSE IF \/ ContainsAny(l, {<<"s","e","n","d"," ","e","m","a","i","l">>, <<"e","m","a","i","l"," ","t","o">>, <<"s","e","n","d"," ","m","a","i","l">>})
               \/ /\ ContainsAny(l, {<<"e","m","a","i","l">>, <<"s","e","n","d">>, <<"m","a","i","l">>})
                  /\ ~ContainsAny(l, {<<"c","o","n","t","a","c","t">>, <<"c","r","m">>, <<"p","i","p","e","d","r","i","v","e">>})
       THEN "email"
       ELSE IF ContainsAny(l, {<<"c","a","l","e","n","d","a","r">>, <<"m","e","e","t","i","n","g">>, <<"s","c","h","e","d","u","l","e">>, <<"a","v","a","i","l","a","b","l","e">>, <<"c","a","l","e","n","d","l","y">>})
       THEN "calendly"
       ELSE "general"

\* the words main_loop takes as commands, whatever is pending
CommandWords == {<<"h","e","l","p">>, <<"s","t","a","t","u","s">>, <<"m","e","m","o","r","y">>, <<"c","l","e","a","r">>, <<"q","u","i","t">>, <<"e","x","i","t">>, <<"q">>}
QuitWords == {<<"q","u","i","t">>, <<"e","x","i","t">>, <<"q">>}
\* the words handle_missing_info_response takes as a cancellation
CancelWords == {<<"c","a","n","c","e","l">>, <<"s","t","o","p">>}

\* ------------------------------------------------- what the handlers test

\* len(text.strip()) > 10 of _assign_email_field_from_text
ContentMinLen == 10
\* len(text) > 20 of _extract_email_info
FreeTextMinLen == 20

\* stripped.lower() in {"cancel", "stop"} of handle_missing_info_response
IsCancel(user_input) == Lower(Strip(user_input)) \in CancelWords

\* any(doc_indicator in text.lower() for doc_indicator in [...]) of the
\* content branch of _assign_email_field_from_text
NamesDocument(text) ==
    ContainsAny(Lower(text), {<<"j","p",".","t","x","t">>, <<"d","o","c","u","m","e","n","t">>, <<".","t","x","t">>, <<".","m","d">>, <<".","p","d","f">>})

\* subject_match of _extract_email_info, None when "subject" is not in the text
SubjectMatch(text) ==
    IF Contains(Lower(text), <<"s","u","b","j","e","c","t">>) THEN SubjectSearch(text, FALSE) ELSE None

\* name_match of _extract_crm_info, None when "name" is not in the text
NameMatch(text) ==
    IF Contains(Lower(text), <<"n","a","m","e">>) THEN NameSearch(text) ELSE None

\* document_file of _extract_email_info
MentionedDocument(text, dir) ==
    IF Contains(Lower(text), <<"d","o","c","u","m","e","n","t">>) THEN FirstDocument(dir, DocumentExtensions)
    ELSE FirstMentionedFile(text, dir, DocumentExtensions)

\* the test under which _extract_email_info takes the whole text as content
IsFreeText(text) ==
    /\ Len(text) > FreeTextMinLen
    /\ ~ContainsAny(Lower(text), {<<"s","e","n","d"," ","e","m","a","i","l">>, <<"s","e","n","d"," ","a","n"," ","e","m","a","i","l">>, <<"h","e","l","p"," ","m","e"," ","s","e","n","d">>})

\* date_param of _handle_calendly_request, as the day it names
DateParam(query) ==
    IF Contains(Lower(query), <<"t","o","m","o","r","r","o","w">>) THEN Some(<<"t","o","m","o","r","r","o","w">>)
    ELSE IF Contains(Lower(query), <<"t","o","d","a","y">>) THEN Some(<<"t","o","d","a","y">>)
    ELSE None

\* the document file _process_document_request(text) works on, or None
RequestedDocument(text, dir) ==
    LET mentioned == FirstMentionedFile(text, dir, RequestExtensions)
    IN IF mentioned # None THEN mentioned
       ELSE IF /\ Contains(Lower(text), <<"j","p",".","t","x","t">>)
               /\ \E k \in 1..Len(dir) : dir[k] = <<"J","P",".","t","x","t">>
       THEN Some(<<"J","P",".","t","x","t">>)
       ELSE IF Contains(Lower(text), <<"d","o","c","u","m","e","n","t">>)
       THEN FirstDocument(dir, AnyDocumentSuffixes)
       ELSE None

\* A line main_loop has read (Prompt.ask(...).strip()), with everything the
\* handlers compute from its text alone; dir is the listing of documents_dir.
LineOf(text, dir) ==
    [text |-> text,
     stripped |-> Strip(text),
     lower |-> Lower(text),
     cancel |-> IsCancel(text),
     route |-> RouteOf(text),
     email |-> EmailSearch(text),
     subject |-> SubjectFromAnswer(text),
     name |-> NameFromAnswer(text),
     subject_match |-> SubjectMatch(text),
     name_match |-> NameMatch(text),
     email_data |-> ExtractEmailDataDeterministic(text, dir),
     names_document |-> NamesDocument(text),
     requested_document |-> RequestedDocument(text, dir),
     mentioned_document |-> MentionedDocument(text, dir),
     free_text |-> IsFreeText(text),
     date |-> DateParam(text)]

\* ----------------------------------------------------------------- inputs

\* The lines the user types in this model.
In_SendBob == <<"s","e","n","d"," ","a","n"," ","e","m","a","i","l"," ","t","o"," ","b","o","b","@","c","o",".","c","o","m">>
In_SendSubject == <<"s","e","n","d"," ","e","m","a","i","l",","," ","s","u","b","j","e","c","t"," ","i","s"," ","H","e","l","l","o">>
In_SendBare == <<"s","e","n","d"," ","a","n"," ","e","m","a","i","l">>
In_SendSummary == <<"e","m","a","i","l"," ","a"," ","s","u","m","m","a","r","y"," ","o","f"," ","n","o","t","e","s",".","t","x","t">>
In_Bob == <<"b","o","b","@","c","o",".","c","o","m">>
In_Hello == <<"H","e","l","l","o">>
In_SubjectEmpty == <<"s","u","b","j","e","c","t"," ",":">>
In_SubjectStatus == <<"s","u","b","j","e","c","t"," ","i","s"," ","S","t","a","t","u","s"," ","u","p","d","a","t","e">>
In_Content == <<"S","e","e"," ","y","o","u"," ","a","t"," ","n","o","o","n",".">>
In_File == <<"n","o","t","e","s",".","t","x","t">>
In_ContactJane == <<"c","r","e","a","t","e"," ","a"," ","c","o","n","t","a","c","t"," ","f","o","r"," ","j","a","n","e","@","c","o","m","p","a","n","y",".","c","o","m">>
In_NameJane == <<"n","a","m","e"," ","i","s"," ","J","a","n","e"," ","S","m","i","t","h">>
In_NameEmpty == <<"n","a","m","e"," ",":">>
In_AddContact == <<"a","d","d"," ","a"," ","c","o","n","t","a","c","t">>
In_AddFull == <<"a","d","d"," ","c","o","n","t","a","c","t"," ","n","a","m","e"," ","J","o","h","n"," ","D","o","e"," ","e","m","a","i","l"," ","j","d","@","x",".","i","o">>
In_Cancel == <<"c","a","n","c","e","l">>
In_Stop == <<"S","T","O","P">>
In_Help == <<"h","e","l","p">>
In_Quit == <<"q","u","i","t">>
In_Status == <<"S","t","a","t","u","s">>
In_Memory == <<"m","e","m","o","r","y">>
In_Clear == <<"c","l","e","a","r">>
In_Exit == <<"E","X","I","T">>
In_Q == <<"q">>
In_Calendar == <<"i","s"," ","a"," ","m","e","e","t","i","n","g"," ","p","o","s","s","i","b","l","e"," ","t","o","m","o","r","r","o","w">>
In_Hi == <<"h","i"," ","t","h","e","r","e">>
In_AddMeeting == <<"a","d","d"," ","t","h","e"," ","m","e","e","t","i","n","g"," ","t","o"," ","m","y"," ","m","a","i","l">>
In_MailSchedule == <<"m","a","i","l"," ","t","h","e"," ","s","c","h","e","d","u","l","e">>

Inputs ==
    {In_SendBob, In_SendSubject, In_SendBare, In_SendSummary, In_Bob, In_Hello,
     In_SubjectEmpty, In_SubjectStatus, In_Content, In_File, In_ContactJane,
     In_NameJane, In_NameEmpty, In_AddContact, In_AddFull, In_Cancel, In_Stop,
     In_Help, In_Quit, In_Status, In_Memory, In_Clear, In_Exit, In_Q,
     In_Calendar, In_Hi, In_AddMeeting, In_MailSchedule}

\* The tools initialize_tool_agents may have configured, and the listings of
\* documents_dir, in this model.
ToolConfigs == {{}, {"GMAIL", "PIPEDRIVE", "CALENDLY"}}
DocumentListings == {<<<<"n","o","t","e","s",".","t","x","t">>>>}
\* ----------------------------------------------------------------- state

VARIABLES
    pending_email,          \* self.pending_email
    pending_crm,            \* self.pending_crm
    current_task_type,      \* self.current_task_type: "None", "email", "crm", "calendly"
    current_prompt_field,   \* self.current_prompt_field: None or <<task, field>>
    tool_agents,            \* the keys of self.tool_agents
    llm_available,          \* self.llm.is_available()
    documents,              \* the file names of documents_dir, in iterdir() order
    running,                \* main_loop has not left its while loop
    last_input,             \* the line the last iteration of main_loop read
    routed,                 \* what that iteration did with the line
    branch,                 \* the branch process_user_request took in it, if called
    asked,                  \* the questions it put, in order: <<task, field>> each
    warned,                 \* the fields whose answer it rejected, in order
    calls,                  \* the tool calls it made, in order
    notified,               \* the event types it sent to the notifier, in order
    valid_answers,          \* the answers the pending dialogue has had, if all were valid
    llm_client,             \* the llm_client PlannerAgent and DeliberationCore hold
    agent_pc,               \* how far a client of the two agents has come
    plan,                   \* the Plan in the client's hands: None or Some(plan)
    plan_source,            \* where it comes from: "create_plan" or "caller"
    analyses,               \* the outcomes of the classifier calls create_plan made
    completion,             \* the model response generate_draft received, if any
    draft,                  \* the Draft generate_draft returned: None or Some(draft)
    confidence_threshold,   \* ReviewerAgent.confidence_threshold
    kept_draft,             \* a Draft the client of the reviewer keeps
    kept_results,           \* the ReviewResults of the reviews of it, in order
    last_review,            \* the last call of review_draft, if any
    executor_tools,         \* the tool types the executor has a collaborator for
    executed,               \* the last call of execute_draft, if any
    credentials,            \* what the credentials of the tool agents provide
    tool_reply,             \* the last call of a tool agent's execute, if any
    interactions,           \* the list in the memory file; None: no valid JSON
    stored                  \* the entries store_interaction has stored, in order

vars == <<pending_email, pending_crm, current_task_type, current_prompt_field,
          tool_agents, llm_available, documents, running,
          last_input, routed, branch, asked, warned, calls, notified, valid_answers,
          llm_client, agent_pc, plan, plan_source, analyses, completion, draft,
          confidence_threshold, kept_draft, kept_results, last_review,
          executor_tools, executed, credentials, tool_reply,
          interactions, stored>>

\* the state of the command line, and the state of the planner and the draft
\* generator (which the command line never builds)
cliVars == <<pending_email, pending_crm, current_task_type, current_prompt_field,
             tool_agents, llm_available, documents, running,
             last_input, routed, branch, asked, warned, calls, notified,
             valid_answers>>
agentVars == <<llm_client, agent_pc, plan, plan_source, analyses, completion, draft>>
\* the state of a client of the reviewer, and of a client of the executor
reviewVars == <<confidence_threshold, kept_draft, kept_results, last_review>>
executorVars == <<executor_tools, executed>>
\* the state of a client of the tool agents, and of a client of the memory
toolVars == <<credentials, tool_reply>>
memoryVars == <<interactions, stored>>

\* credentials that provide nothing
NoCredentials ==
    [gmail_address |-> FALSE, gmail_transport |-> "none", pipedrive_client |-> FALSE,
     calendly_token |-> FALSE, calendly_event_type_uuid |-> FALSE,
     calendly_scheduling_link |-> FALSE]

\* the part of the state an iteration of main_loop leaves alone
env == <<tool_agents, llm_available, documents>>

\* LineOf, computed once for each line of the model.
Lines == [text \in Inputs \cup {<<>>}, dir \in DocumentListings |-> LineOf(text, dir)]
Line(user_input) == Lines[user_input, documents]

EmptyPendingEmail ==
    [to |-> None, subject |-> None, content |-> None, original_query |-> None,
     content_requirement |-> None, document_reference |-> None]
EmptyPendingCrm == [name |-> None, email |-> None, original_query |-> None]

\* The session as the handlers of one iteration read and write it.
Session ==
    [pe |-> pending_email, pc |-> pending_crm, task |-> current_task_type,
     prompt |-> current_prompt_field,
     branch |-> "none",
     asked |-> <<>>, warned |-> <<>>, calls |-> <<>>, notified |-> <<>>]

\* ------------------------------------------------- external collaborators

\* doc_path.read_text(encoding='utf-8').strip() of a document of this model
DocumentText == <<"Q","3"," ","n","o","t","e","s",":"," ","r","e","v","e","n","u","e"," ","u","p">>
\* What the language model answers in this model when its call succeeds.
LLMText == <<"H","e","l","l","o",","," ","h","e","r","e"," ","i","s"," ","t","h","e"," ","u","p","d","a","t","e","."," ","R","e","g","a","r","d","s">>
LLMSubjectText == <<"P","r","o","j","e","c","t"," ","u","p","d","a","t","e">>
\* f"Error generating content: {str(e)}" of _generate_email_body_with_llm
BodyErrorText == <<"E","r","r","o","r"," ","g","e","n","e","r","a","t","i","n","g"," ","c","o","n","t","e","n","t",":"," ","<","e","x","c","e","p","t","i","o","n",">">>
\* the fallback of _generate_subject_from_query
SubjectFallbackText == <<"E","m","a","i","l"," ","S","u","b","j","e","c","t">>
\* the returns of _process_document_request and _generate_processed_content
DocumentNotFoundText == <<"D","o","c","u","m","e","n","t"," ","n","o","t"," ","f","o","u","n","d",".">>
DocumentErrorText == <<"E","r","r","o","r"," ","l","o","a","d","i","n","g"," ","d","o","c","u","m","e","n","t",":"," ","<","e","x","c","e","p","t","i","o","n",">">>
LLMUnavailableText == <<"L","L","M"," ","n","o","t"," ","a","v","a","i","l","a","b","l","e"," ","f","o","r"," ","c","o","n","t","e","n","t"," ","p","r","o","c","e","s","s","i","n","g",".">>
ProcessErrorText == <<"E","r","r","o","r"," ","p","r","o","c","e","s","s","i","n","g"," ","c","o","n","t","e","n","t"," ","w","i","t","h"," ","L","L","M",":"," ","<","e","x","c","e","p","t","i","o","n",">">>

\* self.llm.client.chat.completions.create(...).choices[0].message.content.strip():
\* the texts the call can return, a blank one among them; no text when the
\* call raises, as it always does without a client (attribute access on None).
ChatCompletions(text) == IF llm_available THEN {text, <<>>} ELSE {}

\* _generate_email_body_with_llm: the bodies it can return.  self.llm is an
\* LLMClient object and so never falsy; a failure of read_text or of the
\* model call ends in the except clause, which returns the error string.
GenerateEmailBodyWithLLM ==
    ChatCompletions(LLMText) \cup {BodyErrorText}

\* _generate_subject_from_query: .strip().strip('"') of the answer, or the
\* fallback of its except clause
GenerateSubjectFromQuery ==
    {StripSet(Strip(t), {"\""}) : t \in ChatCompletions(LLMSubjectText)}
    \cup {SubjectFallbackText}

\* _generate_processed_content(raw_content, user_request)
GenerateProcessedContent ==
    IF ~llm_available THEN {LLMUnavailableText}
    ELSE ChatCompletions(LLMText) \cup {ProcessErrorText}

\* _process_document_request(text): the strings it can return
ProcessDocumentRequest(line) ==
    IF line.requested_document = None THEN {DocumentNotFoundText}
    ELSE GenerateProcessedContent \cup {DocumentErrorText}


\* -------------------------------------------------------------- handlers


Ask(s, task, field) ==
    [s EXCEPT !.prompt = <<task, field>>, !.asked = Append(@, <<task, field>>)]

Warn(s, task, field) == [s EXCEPT !.warned = Append(@, <<task, field>>)]

\* A faulty _clear_all_pending: it resets the email fields and forgets the
\* CRM fields.
ClearAllPendingEmailOnly(s) ==
    [s EXCEPT !.pe = EmptyPendingEmail, !.task = "None", !.prompt = None]

\* _clear_all_pending
ClearAllPending(s) ==
    [s EXCEPT !.pe = EmptyPendingEmail, !.pc = EmptyPendingCrm,
              !.task = "None", !.prompt = None]

\* A faulty _clear_pending_email: it leaves current_prompt_field as it is.
ClearPendingEmailKeepingPrompt(s) ==
    [s EXCEPT !.pe = EmptyPendingEmail, !.task = "None"]

\* _clear_pending_email
ClearPendingEmail(s) ==
    [s EXCEPT !.pe = EmptyPendingEmail, !.task = "None", !.prompt = None]

\* A faulty _clear_pending_crm: it leaves the collected fields as they are.
ClearPendingCrmTaskOnly(s) ==
    [s EXCEPT !.task = "None", !.prompt = None]

\* _clear_pending_crm
ClearPendingCrm(s) ==
    [s EXCEPT !.pc = EmptyPendingCrm, !.task = "None", !.prompt = None]

\* _is_email_complete
IsEmailComplete(s) ==
    Truthy(s.pe.to) /\ Truthy(s.pe.subject) /\ Truthy(s.pe.content)

\* _is_crm_complete
IsCrmComplete(s) == Truthy(s.pc.name) /\ Truthy(s.pc.email)

\* _get_missing_email_info
GetMissingEmailInfo(s) ==
    (IF Truthy(s.pe.to) THEN <<>> ELSE <<"recipient email">>)
    \o (IF Truthy(s.pe.subject) THEN <<>> ELSE <<"subject">>)
    \o (IF Truthy(s.pe.content) THEN <<>> ELSE <<"content">>)

\* _get_missing_crm_info
GetMissingCrmInfo(s) ==
    (IF Truthy(s.pc.name) THEN <<>> ELSE <<"contact name">>)
    \o (IF Truthy(s.pc.email) THEN <<>> ELSE <<"email address">>)

In(x, seq) == \E i \in 1..Len(seq) : seq[i] = x

\* A faulty _prompt_next_email_field: `if` for each missing field where the
\* code has `elif`, so that it asks for every missing field.
PromptEveryMissingEmailField(s) ==
    LET missing == GetMissingEmailInfo(s)
        s1 == IF In("recipient email", missing) THEN Ask(s, "email", "to") ELSE s
        s2 == IF In("subject", missing) THEN Ask(s1, "email", "subject") ELSE s1
    IN IF In("content", missing) THEN Ask(s2, "email", "content") ELSE s2

\* _prompt_next_email_field
PromptNextEmailField(s) ==
    LET missing == GetMissingEmailInfo(s)
    IN IF In("recipient email", missing) THEN Ask(s, "email", "to")
       ELSE IF In("subject", missing) THEN Ask(s, "email", "subject")
       ELSE IF In("content", missing) THEN Ask(s, "email", "content")
       ELSE s

\* _prompt_next_crm_field
PromptNextCrmField(s) ==
    LET missing == GetMissingCrmInfo(s)
    IN IF In("contact name", missing) THEN Ask(s, "crm", "name")
       ELSE IF In("email address", missing) THEN Ask(s, "crm", "email")
       ELSE s

\* A faulty _send_email: it calls the tool a second time.
SendEmailRetrying(s) ==
    IF "GMAIL" \in tool_agents
    THEN {[s EXCEPT
             !.calls = @ \o << [tool |-> "GMAIL", action |-> "send_email",
                                parameters |-> [to |-> s.pe.to,
                                                subject |-> s.pe.subject,
                                                body |-> s.pe.content]],
                               [tool |-> "GMAIL", action |-> "send_email",
                                parameters |-> [to |-> s.pe.to,
                                                subject |-> s.pe.subject,
                                                body |-> s.pe.content]] >>,
             !.notified = IF success THEN Append(@, "task_completed") ELSE @] :
          success \in BOOLEAN}
    ELSE {s}

\* _send_email: the tool is called when Gmail is configured, and a success
\* is notified.
SendEmail(s) ==
    IF "GMAIL" \in tool_agents
    THEN {[s EXCEPT
             !.calls = Append(@, [tool |-> "GMAIL", action |-> "send_email",
                                  parameters |-> [to |-> s.pe.to,
                                                  subject |-> s.pe.subject,
                                                  body |-> s.pe.content]]),
             !.notified = IF success THEN Append(@, "task_completed") ELSE @] :
          success \in BOOLEAN}
    ELSE {s}

\* _add_crm_contact
AddCrmContact(s) ==
    IF "PIPEDRIVE" \in tool_agents
    THEN {[s EXCEPT
             !.calls = Append(@, [tool |-> "PIPEDRIVE", action |-> "create_contact",
                                  parameters |-> [name |-> s.pc.name,
                                                  email |-> s.pc.email]]),
             !.notified = IF success THEN Append(@, "task_completed") ELSE @] :
          success \in BOOLEAN}
    ELSE {s}

\* The content branch of _assign_email_field_from_text: a text naming a
\* document is processed first, and a non-empty result is the content; else
\* the stripped text is, when longer than 10 characters.
AssignEmailContent(s, line) ==
    LET processed ==
            IF line.names_document
            THEN ProcessDocumentRequest(line)
            ELSE {<<>>}
    IN {IF p # <<>> THEN [s EXCEPT !.pe.content = Some(p)]
        ELSE IF Len(line.stripped) > ContentMinLen
             THEN [s EXCEPT !.pe.content = Some(line.stripped)]
        ELSE Warn(s, "email", "content") : p \in processed}

\* _assign_email_field_from_text
AssignEmailFieldFromText(s, field, line) ==
    IF field = "to"
    THEN IF line.email # None
         THEN {[s EXCEPT !.pe.to = line.email]}
         ELSE {Warn(s, "email", "to")}
    ELSE IF field = "subject"
    THEN IF line.subject # <<>>
         THEN {[s EXCEPT !.pe.subject = Some(line.subject)]}
         ELSE {Warn(s, "email", "subject")}
    ELSE IF field = "content" THEN AssignEmailContent(s, line)
    ELSE {s}

\* A faulty _assign_crm_field_from_text: the name is the stripped text, its
\* "name is" label left in.
AssignCrmFieldUnlabelled(s, field, line) ==
    IF field = "email"
    THEN IF line.email # None
         THEN [s EXCEPT !.pc.email = line.email]
         ELSE Warn(s, "crm", "email")
    ELSE IF field = "name"
    THEN IF line.stripped # <<>>
         THEN [s EXCEPT !.pc.name = Some(line.stripped)]
         ELSE Warn(s, "crm", "name")
    ELSE s

\* _assign_crm_field_from_text
AssignCrmFieldFromText(s, field, line) ==
    IF field = "email"
    THEN IF line.email # None
         THEN [s EXCEPT !.pc.email = line.email]
         ELSE Warn(s, "crm", "email")
    ELSE IF field = "name"
    THEN IF line.name # <<>>
         THEN [s EXCEPT !.pc.name = Some(line.name)]
         ELSE Warn(s, "crm", "name")
    ELSE s

\* _extract_email_info
ExtractEmailInfo(s, line) ==
    LET s1 == IF line.email # None /\ ~Truthy(s.pe.to)
              THEN [s EXCEPT !.pe.to = line.email] ELSE s
        s2 == IF line.subject_match # None /\ ~Truthy(s1.pe.subject)
              THEN [s1 EXCEPT !.pe.subject = line.subject_match] ELSE s1
    IN IF line.mentioned_document # None /\ ~Truthy(s2.pe.content)
       THEN {[s2 EXCEPT !.pe.content = Some(DocumentText)], s2}
       ELSE IF ~Truthy(s2.pe.content) /\ line.free_text
       THEN {[s2 EXCEPT !.pe.content = Some(line.text)]}
       ELSE {s2}

\* What _handle_email_hybrid and the recipient branch of
\* _handle_email_followup do once the recipient is known: generate the body,
\* generate the subject when there is none, send, clear.  None of the calls
\* can raise: each catches every Exception itself.
GenerateAndSend(s) ==
    LET withBody == {[s EXCEPT !.pe.content = Some(b)] : b \in GenerateEmailBodyWithLLM}
        WithSubject(s1) ==
            IF ~Truthy(s1.pe.subject)
            THEN {[s1 EXCEPT !.pe.subject = Some(t)] : t \in GenerateSubjectFromQuery}
            ELSE {s1}
        withSubject == UNION {WithSubject(s1) : s1 \in withBody}
    IN {ClearPendingEmail(s3) : s3 \in UNION {SendEmail(s2) : s2 \in withSubject}}

\* The tail of _handle_email_followup: send when complete, else ask for the
\* next missing field.
EmailFollowupTail(s) ==
    IF IsEmailComplete(s) THEN {ClearPendingEmail(s1) : s1 \in SendEmail(s)}
    ELSE {PromptNextEmailField(s)}

\* The recipient branch of _handle_email_followup, the answer assigned.
AfterRecipient(s) ==
    IF Truthy(s.pe.to)
    THEN IF Truthy(s.pe.content_requirement) \/ Truthy(s.pe.document_reference)
         THEN GenerateAndSend(s)
         ELSE {Ask(s, "email", "subject")}
    ELSE {s}

\* A faulty subject branch: with the subject stored it asks for the recipient.
AfterSubjectAskingRecipient(s) ==
    IF Truthy(s.pe.subject) THEN {Ask(s, "email", "to")}
    ELSE EmailFollowupTail(s)

\* The subject branch of _handle_email_followup, the answer assigned.
AfterSubject(s) ==
    IF Truthy(s.pe.subject) THEN {Ask(s, "email", "content")}
    ELSE EmailFollowupTail(s)

\* The content branch of _handle_email_followup, the answer assigned.
AfterContent(s) ==
    IF Truthy(s.pe.content) THEN {ClearPendingEmail(s1) : s1 \in SendEmail(s)}
    ELSE EmailFollowupTail(s)

\* A faulty _handle_email_followup: whatever field it awaits, it seeds the
\* fields from the text as its last branch does.
HandleEmailFollowupSeeding(s, line) ==
    UNION {EmailFollowupTail(s1) : s1 \in ExtractEmailInfo(s, line)}

\* _handle_email_followup(text): the sessions it can leave
HandleEmailFollowup(s, line) ==
    IF s.prompt = <<"email", "to">>
    THEN UNION {AfterRecipient(s1) : s1 \in AssignEmailFieldFromText(s, "to", line)}
    ELSE IF s.prompt = <<"email", "subject">>
    THEN UNION {AfterSubject(s1) : s1 \in AssignEmailFieldFromText(s, "subject", line)}
    ELSE IF s.prompt = <<"email", "content">>
    THEN UNION {AfterContent(s1) : s1 \in AssignEmailFieldFromText(s, "content", line)}
    ELSE UNION {EmailFollowupTail(s1) : s1 \in ExtractEmailInfo(s, line)}

\* _extract_crm_info
ExtractCrmInfo(s, line) ==
    LET s1 == IF line.email # None /\ ~Truthy(s.pc.email)
              THEN [s EXCEPT !.pc.email = line.email] ELSE s
    IN IF ~Truthy(s1.pc.name) /\ line.name_match # None
       THEN [s1 EXCEPT !.pc.name = line.name_match]
       ELSE s1

\* The tail of _handle_crm_followup and of the CRM branch of
\* process_user_request: create the contact when complete, else ask for the
\* next missing field.
CrmTail(s) ==
    IF IsCrmComplete(s) THEN {ClearPendingCrm(s1) : s1 \in AddCrmContact(s)}
    ELSE {PromptNextCrmField(s)}

\* _handle_crm_followup(text)
HandleCrmFollowup(s, line) ==
    IF s.prompt = <<"crm", "name">>
    THEN CrmTail(AssignCrmFieldFromText(s, "name", line))
    ELSE IF s.prompt = <<"crm", "email">>
    THEN CrmTail(AssignCrmFieldFromText(s, "email", line))
    ELSE CrmTail(ExtractCrmInfo(s, line))

\* handle_missing_info_response returns True: a task type is pending, and
\* the input cancels it or the task is an email or a CRM dialogue.
HandlesResponse(s, line) ==
    /\ s.task # "None"
    /\ (line.cancel \/ s.task \in {"email", "crm"})

\* handle_missing_info_response(user_input): the sessions it can leave
HandleMissingInfoResponse(s, line) ==
    IF s.task = "None" THEN {s}
    ELSE IF line.cancel THEN {ClearAllPending(s)}
    ELSE IF s.task = "email" THEN HandleEmailFollowup(s, line)
    ELSE IF s.task = "crm" THEN HandleCrmFollowup(s, line)
    ELSE {s}

\* _handle_email_hybrid(user_query)
HandleEmailHybrid(s, line) ==
    LET email_data == line.email_data
        s1 == [s EXCEPT !.task = "email", !.pe.original_query = Some(line.text)]
        s2 == IF Truthy(email_data.to) THEN [s1 EXCEPT !.pe.to = email_data.to] ELSE s1
        s3 == IF Truthy(email_data.subject)
              THEN [s2 EXCEPT !.pe.subject = email_data.subject] ELSE s2
    IN IF ~Truthy(s3.pe.to)
       THEN {[Ask(s3, "email", "to") EXCEPT
                 !.pe.content_requirement = email_data.content_requirement,
                 !.pe.document_reference = email_data.document_reference]}
       ELSE GenerateAndSend(s3)

\* _handle_calendly_request(query)
HandleCalendlyRequest(s, line) ==
    IF "CALENDLY" \in tool_agents
    THEN {[s EXCEPT
             !.calls = Append(@, [tool |-> "CALENDLY", action |-> "list_available_slots",
                                  parameters |-> [date |-> line.date]]),
             !.notified = IF success THEN Append(@, "task_completed") ELSE @] :
          success \in BOOLEAN}
    ELSE {s}

\* process_user_request(user_query): the sessions it can leave
ProcessUserRequest(s, line) ==
    LET s0 == [s EXCEPT !.notified = Append(@, "task_started")]
    IN IF line.route = "crm"
       THEN CrmTail(ExtractCrmInfo([s0 EXCEPT !.task = "crm", !.branch = "crm",
                                               !.pc.original_query = Some(line.text)],
                                   line))
       ELSE IF line.route = "email"
       THEN HandleEmailHybrid([s0 EXCEPT !.branch = "email"], line)
       ELSE IF line.route = "calendly"
       THEN HandleCalendlyRequest([s0 EXCEPT !.task = "calendly", !.branch = "calendly"],
                                  line)
       ELSE {[s0 EXCEPT !.branch = "general"]}

\* ------------------------------------------------------------- main loop

\* A faulty main_loop: a pending task gets every line, the commands too.
DispatchRepliesFirst(s, line) ==
    LET lower == line.lower
    IN IF line.text = <<>> THEN "empty"
       ELSE IF s.task # "None" /\ HandlesResponse(s, line) THEN "respond"
       ELSE IF lower \in QuitWords THEN "quit"
       ELSE IF lower \in CommandWords THEN "command"
       ELSE "request"

\* What one iteration of main_loop does with the line it read: nothing for
\* an empty line ("empty"); handle_missing_info_response when a task type is
\* pending, the line is no command and the handler returns True ("respond");
\* the commands; the second call of the handler when a pending email value
\* is left ("respond"); else process_user_request ("request").
Dispatch(s, line) ==
    LET lower == line.lower
    IN IF line.text = <<>> THEN "empty"
       ELSE IF /\ s.task # "None"
               /\ lower \notin CommandWords
               /\ HandlesResponse(s, line)
       THEN "respond"
       ELSE IF lower \in QuitWords THEN "quit"
       ELSE IF lower \in CommandWords THEN "command"
       ELSE IF /\ \E k \in DOMAIN s.pe : Truthy(s.pe[k])
               /\ HandlesResponse(s, line)
       THEN "respond"
       ELSE "request"

\* the line read holds no value for the awaited field
InvalidLine(prompt, line) ==
    IF prompt[2] \in {"to", "email"} THEN line.email = None
    ELSE IF prompt[2] = "subject" THEN line.subject = <<>>
    ELSE IF prompt[2] = "name" THEN line.name = <<>>
    ELSE Len(line.stripped) <= ContentMinLen

\* the answer is invalid for the awaited field
InvalidAnswer(prompt, text) == InvalidLine(prompt, Line(text))

MaxAnswers == 4

\* valid_answers after an iteration that left the session as s: a request
\* that starts a dialogue sets it to 0; an answer valid for the awaited field
\* that leaves the dialogue pending adds one (up to MaxAnswers); an invalid
\* answer, a cancel and the end of the dialogue leave no count; every other
\* iteration leaves it as it is.
AnswersAfter(s, line, how) ==
    IF how = "request"
    THEN IF s.task \in {"email", "crm"} THEN Some(0) ELSE None
    ELSE IF how = "cancel" THEN None
    ELSE IF how = "answer"
    THEN IF /\ valid_answers # None
            /\ s.task \in {"email", "crm"}
            /\ current_prompt_field # None
            /\ ~InvalidLine(current_prompt_field, line)
         THEN Some(IF valid_answers[1] < MaxAnswers THEN valid_answers[1] + 1
                   ELSE MaxAnswers)
         ELSE None
    ELSE valid_answers

\* The state after an iteration that left the session as s.
Commit(s, line, how) ==
    /\ pending_email' = s.pe
    /\ pending_crm' = s.pc
    /\ current_task_type' = s.task
    /\ current_prompt_field' = s.prompt
    /\ asked' = s.asked
    /\ warned' = s.warned
    /\ calls' = s.calls
    /\ notified' = s.notified
    /\ valid_answers' = AnswersAfter(s, line, how)
    /\ last_input' = line.text
    /\ routed' = how
    /\ branch' = s.branch
    /\ UNCHANGED env
    /\ UNCHANGED <<agentVars, reviewVars, executorVars, toolVars, memoryVars>>

\* `if not user_input: continue`
EmptyLine(line) ==
    /\ running
    /\ Dispatch(Session, line) = "empty"
    /\ Commit(Session, line, "empty")
    /\ UNCHANGED running

\* The line is the reply to the pending dialogue, or cancels it.
Respond(line) ==
    /\ running
    /\ Dispatch(Session, line) = "respond"
    /\ \E s \in HandleMissingInfoResponse(Session, line) :
          Commit(s, line, IF line.cancel THEN "cancel" ELSE "answer")
    /\ UNCHANGED running

\* quit, exit, q: the loop ends
Quit(line) ==
    /\ running
    /\ Dispatch(Session, line) = "quit"
    /\ Commit(Session, line, "quit")
    /\ running' = FALSE

\* help, status, memory, clear: shown, the session untouched
Command(line) ==
    /\ running
    /\ Dispatch(Session, line) = "command"
    /\ Commit(Session, line, "command")
    /\ UNCHANGED running

\* The line is a new request.
Request(line) ==
    /\ running
    /\ Dispatch(Session, line) = "request"
    /\ \E s \in ProcessUserRequest(Session, line) :
          Commit(s, line, "request")
    /\ UNCHANGED running

\* Prompt.ask raises an exception (end of input, for one): the clause
\* `except Exception` prints the error and the loop reads again
ReadRaises(line) ==
    /\ running
    /\ line.text = <<>>
    /\ Commit(Session, line, "raised")
    /\ UNCHANGED running

\* the user interrupts at the prompt: the clause `except KeyboardInterrupt`
\* prints the goodbye and leaves the loop
ReadInterrupted(line) ==
    /\ running
    /\ line.text = <<>>
    /\ Commit(Session, line, "interrupted")
    /\ running' = FALSE

\* ---------------------------------------------------------- specification

\* the planner and the draft generator before any client has used them
AgentsIdle ==
    /\ agent_pc = "idle"
    /\ plan = None
    /\ plan_source = "none"
    /\ analyses = <<>>
    /\ completion = None
    /\ draft = None

\* no reviewer and no executor have been built
ReviewerIdle ==
    /\ confidence_threshold = None
    /\ kept_draft = None
    /\ kept_results = <<>>
    /\ last_review = None
ExecutorIdle ==
    /\ executor_tools = {}
    /\ executed = None
\* no tool agent has been built or called, and the memory file is empty
ToolsIdle ==
    /\ credentials = NoCredentials
    /\ tool_reply = None
MemoryIdle ==
    /\ interactions = Some(<<>>)
    /\ stored = <<>>


\* __init__, then initialize_tool_agents
Init ==
    /\ pending_email = EmptyPendingEmail
    /\ pending_crm = EmptyPendingCrm
    /\ current_task_type = "None"
    /\ current_prompt_field = None
    /\ tool_agents \in ToolConfigs
    /\ llm_available \in BOOLEAN
    /\ documents \in DocumentListings
    /\ running = TRUE
    /\ last_input = <<>>
    /\ routed = "start"
    /\ branch = "none"
    /\ asked = <<>>
    /\ warned = <<>>
    /\ calls = <<>>
    /\ notified = <<>>
    /\ valid_answers = None
    /\ llm_client = "absent"
    /\ AgentsIdle
    /\ ReviewerIdle
    /\ ExecutorIdle
    /\ ToolsIdle
    /\ MemoryIdle

Next ==
    \/ EmptyLine(Line(<<>>))
    \/ \E user_input \in Inputs : Respond(Line(user_input))
    \/ \E user_input \in Inputs : Quit(Line(user_input))
    \/ \E user_input \in Inputs : Command(Line(user_input))
    \/ \E user_input \in Inputs : Request(Line(user_input))
    \/ ReadRaises(Line(<<>>))
    \/ ReadInterrupted(Line(<<>>))

Spec == Init /\ [][Next]_vars

\* ------------------------------------------------- contracts (contracts.py)

\* ToolType, and the value of each member
ToolTypes == {"GMAIL", "PIPEDRIVE", "CALENDLY", "GENERAL"}
ToolValue ==
    [t \in ToolTypes |->
        IF t = "GMAIL" THEN "gmail"
        ELSE IF t = "PIPEDRIVE" THEN "pipedrive"
        ELSE IF t = "CALENDLY" THEN "calendly"
        ELSE "general"]

\* TaskStep.parameters with no key set. A dict is a record of optional
\* values over the keys the agents read: None is what get(key) gives for a
\* key that is not there and for a key that is there with the value None;
\* null_keys holds the keys of the second kind.
NoParameters ==
    [to |-> None, recipient |-> None, recipient_email |-> None, subject |-> None,
     email_content_purpose |-> None, summary_content |-> None, content |-> None,
     action |-> None, query |-> None, name |-> None, email |-> None,
     null_keys |-> {}]

\* TaskStep (step_id, a random uuid, is left out)
TaskStep(description, tool, parameters) ==
    [description |-> description, tool_required |-> tool, parameters |-> parameters]

\* ---------------------------------------------- language model (llm.py)

\* the clients an agent can be built with: no client, a client without an
\* API key (is_available() is False), a client with one
LLMClients == {"absent", "unavailable", "available"}

\* the queries of this model
Q_Report == <<"s","e","n","d"," ","b","o","b"," ","t","h","e"," ","q","u","a","r","t","e","r","l","y"," ","r","e","p","o","r","t",","," ","p","l","e","a","s","e">>
Q_Short == <<"e","m","a","i","l"," ","b","o","b">>
UserQueries == {Q_Report, Q_Short}

\* What analyze_user_query gives: a RuntimeError, or the parsed JSON object
\* with the fields it has checked to be there (confidence and
\* follow_up_question, which create_plan never reads, are left out).
ClassifierRaises ==
    [raised |-> TRUE, intent |-> None, primary_tool |-> None,
     extracted_parameters |-> NoParameters, missing_information |-> <<>>]
Analysis(intent, tool, parameters, missing) ==
    [raised |-> FALSE, intent |-> intent, primary_tool |-> tool,
     extracted_parameters |-> parameters, missing_information |-> missing]

\* The results of this model have the structure the prompt of
\* analyze_user_query asks for: a name or null for intent and primary_tool
\* (a name outside the prompt's list included), an object for
\* extracted_parameters, a list of names for missing_information.
Intents == {Some("send_email"), None}
PrimaryTools ==
    {Some("gmail"), Some("pipedrive"), Some("calendly"), Some("general"),
     Some("hubspot"), None}
P_Bob ==
    [NoParameters EXCEPT !.to = Some(<<"b","o","b","@","c","o",".","c","o","m">>), !.subject = Some(<<"R","e","p","o","r","t">>),
                         !.name = Some(<<"B","o","b">>), !.email = Some(<<"b","o","b","@","c","o",".","c","o","m">>)]
P_JaneUpdate ==
    [NoParameters EXCEPT !.name = Some(<<"J","a","n","e"," ","D","o","e">>),
                         !.email = Some(<<"j","a","n","e","@","e","x","a","m","p","l","e",".","c","o","m">>),
                         !.action = Some(<<"u","p","d","a","t","e","_","c","o","n","t","a","c","t">>),
                         !.null_keys = {"subject"}]
P_JaneNullAction == [P_JaneUpdate EXCEPT !.action = None, !.null_keys = {"subject", "action"}]
ExtractedParameters == {NoParameters, P_Bob, P_JaneUpdate, P_JaneNullAction}
MissingInformation == {<<>>, <<"email_subject", "email_content_purpose">>}
ClassifierOutcomes ==
    {ClassifierRaises} \cup
    {Analysis(i, t, p, m) : i \in Intents, t \in PrimaryTools,
                            p \in ExtractedParameters, m \in MissingInformation}

\* What chat.completions.create gives: an exception, a response with no
\* content, or a content: a text, or a JSON object, kept as its subject and
\* body (None: the key is missing or null).
CompletionRaises == [kind |-> "raise", text |-> <<>>, subject |-> None, body |-> None]
CompletionEmpty == [kind |-> "empty", text |-> <<>>, subject |-> None, body |-> None]
CompletionText(text) == [kind |-> "text", text |-> text, subject |-> None, body |-> None]
CompletionJson(subject, body) ==
    [kind |-> "json", text |-> <<>>, subject |-> subject, body |-> body]

S_Good == <<"Q","u","a","r","t","e","r","l","y"," ","r","e","p","o","r","t">>
S_Short == <<"H","i">>
S_Padded == <<" "," ","o","k"," "," ">>
B_Good == <<"H","e","l","l","o"," ","B","o","b",","," ","t","h","e"," ","r","e","p","o","r","t"," ","i","s"," ","a","t","t","a","c","h","e","d","."," ","B","e","s","t"," ","r","e","g","a","r","d","s",","," ","A","l">>
B_Padded == <<" "," ","H","e","l","l","o"," ","B","o","b",","," ","t","h","e"," ","r","e","p","o","r","t"," ","i","s"," ","a","t","t","a","c","h","e","d","."," ","B","e","s","t"," ","r","e","g","a","r","d","s",","," ","A","l"," "," ">>
B_NoGreeting == <<"T","h","e"," ","r","e","p","o","r","t"," ","i","s"," ","a","t","t","a","c","h","e","d","."," ","B","e","s","t"," ","r","e","g","a","r","d","s",","," ","A","l">>
B_NoClosing == <<"H","e","l","l","o"," ","B","o","b",","," ","t","h","e"," ","r","e","p","o","r","t"," ","i","s"," ","a","t","t","a","c","h","e","d"," ","f","o","r"," ","y","o","u",".">>
B_Short == <<"H","i"," ","B","o","b",","," ","t","h","a","n","k","s">>
B_Assistant == <<"H","e","l","l","o"," ","B","o","b",","," ","a","s"," ","r","e","q","u","e","s","t","e","d"," ","b","y"," ","A","l",","," ","t","h","e"," ","r","e","p","o","r","t","."," ","T","h","a","n","k","s">>
B_Leak == <<"H","e","l","l","o",","," ","S","e","n","d"," ","B","o","b"," ","T","h","e"," ","Q","u","a","r","t","e","r","l","y"," ","R","e","p","o","r","t","."," ","T","h","a","n","k","s">>
B_Inner == <<"T","h","i","s"," ","i","s"," ","t","h","e"," ","m","o","n","t","h","l","y"," ","r","e","p","o","r","t",","," ","t","h","a","n","k","s"," ","a"," ","l","o","t">>
B_Please == <<"H","e","l","l","o"," ","B","o","b",","," ","p","l","e","a","s","e"," ","f","i","n","d"," ","i","t"," ","a","t","t","a","c","h","e","d","."," ","B","e","s","t"," ","r","e","g","a","r","d","s">>
Bodies ==
    {B_Good, B_Padded, B_NoGreeting, B_NoClosing, B_Short, B_Assistant, B_Leak,
     B_Inner, B_Please}
\* the responses to the request of generate_email_content, which asks for a
\* JSON object
EmailCompletions ==
    {CompletionRaises, CompletionEmpty, CompletionText(<<"H","a","p","p","y"," ","t","o"," ","h","e","l","p","."," ">>),
     CompletionJson(None, Some(B_Good)), CompletionJson(Some(S_Good), None),
     CompletionJson(Some(<<>>), Some(B_Good)),
     CompletionJson(Some(S_Short), Some(B_Good)),
     CompletionJson(Some(S_Padded), Some(B_Good))}
    \cup {CompletionJson(Some(S_Good), Some(b)) : b \in Bodies}
\* the responses to the request of generate_general_response, which asks for
\* a text
GeneralCompletions ==
    {CompletionRaises, CompletionEmpty, CompletionText(<<"H","a","p","p","y"," ","t","o"," ","h","e","l","p","."," ">>),
     CompletionText(<<" "," ">>)}
Completions == EmailCompletions \cup GeneralCompletions

\* str.split(sep) for a separator of one character
RECURSIVE SplitOn(_, _)
SplitOn(s, sep) ==
    IF \E i \in 1..Len(s) : s[i] = sep
    THEN LET i == Min({j \in 1..Len(s) : s[j] = sep})
         IN <<SubSeq(s, 1, i - 1)>> \o SplitOn(SubSeq(s, i + 1, Len(s)), sep)
    ELSE <<s>>

PhraseMinLen == 10
SubjectMinLen == 3
BodyMinLen == 20

\* query_phrases of _validate_email_content
QueryPhrases(user_query) ==
    LET pieces == SplitOn(Lower(user_query), ",")
        Long(i) == Len(Strip(pieces[i])) > PhraseMinLen
    IN {Strip(pieces[i]) : i \in {j \in 1..Len(pieces) : Long(j)}}

ProblematicPhrases ==
    {<<"t","h","e"," ","u","s","e","r"," ","a","s","k","e","d">>, <<"u","s","e","r"," ","r","e","q","u","e","s","t">>, <<"y","o","u"," ","a","s","k","e","d"," ","m","e"," ","t","o">>, <<"a","s"," ","r","e","q","u","e","s","t","e","d"," ","b","y">>,
     <<"t","h","e"," ","u","s","e","r"," ","w","a","n","t","s">>, <<"u","s","e","r"," ","q","u","e","r","y">>, <<"b","a","s","e","d"," ","o","n"," ","y","o","u","r"," ","r","e","q","u","e","s","t"," ","t","o">>}
Greetings == {<<"h","e","l","l","o">>, <<"h","i">>, <<"d","e","a","r">>, <<"g","r","e","e","t","i","n","g","s">>}
Closings == {<<"r","e","g","a","r","d","s">>, <<"s","i","n","c","e","r","e","l","y">>, <<"b","e","s","t">>, <<"t","h","a","n","k"," ","y","o","u">>, <<"t","h","a","n","k","s">>}

\* _validate_email_content returns (TRUE) or raises RuntimeError (FALSE)
ValidateEmailContent(user_query, subject, body) ==
    LET body_lower == Lower(body)
    IN /\ ~ContainsAny(body_lower, QueryPhrases(user_query))
       /\ ~ContainsAny(body_lower, ProblematicPhrases)
       /\ ~(Len(Strip(subject)) < SubjectMinLen)
       /\ ~(Len(Strip(body)) < BodyMinLen)
       /\ ContainsAny(body_lower, Greetings)
       /\ ContainsAny(body_lower, Closings)

\* LLMClient.generate_email_content of an available client, for the
\* completion it receives: Some([subject, body]), or None when it raises
\* RuntimeError or returns nothing (no content in the response)
LLMGenerateEmailContent(user_query, c) ==
    IF c.kind = "json" /\ Truthy(c.subject) /\ Truthy(c.body)
                       /\ ValidateEmailContent(user_query, c.subject[1], c.body[1])
    THEN Some([subject |-> Strip(c.subject[1]), body |-> Strip(c.body[1])])
    ELSE None

\* generate_email_content, computed once for each query and completion
EmailContents ==
    [q \in UserQueries, c \in EmailCompletions |-> LLMGenerateEmailContent(q, c)]

\* _safe_generate of an available client: the stripped content, or None
SafeGenerate(c) ==
    IF c.kind = "text" THEN Some(Strip(c.text)) ELSE None
GeneralResponses == [c \in GeneralCompletions |-> SafeGenerate(c)]

\* ------------------------------------------------- PlannerAgent (agents.py)

\* tool_mapping without its entry for calendly
ToolMappingNoCalendly(name) ==
    IF name = Some("gmail") THEN "GMAIL"
    ELSE IF name = Some("pipedrive") THEN "PIPEDRIVE"
    ELSE "GENERAL"

\* tool_mapping.get(analysis["primary_tool"], ToolType.GENERAL)
ToolMapping(name) ==
    IF name = Some("gmail") THEN "GMAIL"
    ELSE IF name = Some("pipedrive") THEN "PIPEDRIVE"
    ELSE IF name = Some("calendly") THEN "CALENDLY"
    ELSE "GENERAL"

\* _get_step_description
GetStepDescription(intent, tool) ==
    IF intent = Some("send_email") THEN "Send email based on user request"
    ELSE IF intent = Some("create_contact") THEN "Create contact in Pipedrive CRM"
    ELSE IF intent = Some("check_calendar") THEN "Check Calendly availability"
    ELSE IF intent = Some("general_assistance") THEN "Process general user request"
    ELSE "Execute " \o ToolValue[tool] \o " task"

\* _analyze_query of a planner that has a client, for the outcome of its
\* classifier call
AnalyzeQuery(query, first) ==
    IF first.raised
    THEN <<TaskStep("Process general user request", "GENERAL",
                    [NoParameters EXCEPT !.action = Some(<<"g","e","n","e","r","a","l","_","a","s","s","i","s","t","a","n","c","e">>),
                                         !.query = Some(query)])>>
    ELSE LET primary_tool == ToolMapping(first.primary_tool)
         IN <<TaskStep(GetStepDescription(first.intent, primary_tool), primary_tool,
                       first.extracted_parameters)>>

\* the basic validation _identify_missing_info falls back to
RECURSIVE BasicValidation(_)
BasicValidation(steps) ==
    IF steps = <<>> THEN <<>>
    ELSE LET p == Head(steps).parameters
             tool == Head(steps).tool_required
             here ==
                 IF tool = "GMAIL"
                 THEN (IF ~Truthy(p.to) THEN <<"email recipient">> ELSE <<>>)
                      \o (IF ~Truthy(p.subject) /\ ~Truthy(p.email_content_purpose)
                          THEN <<"email subject and content purpose">> ELSE <<>>)
                 ELSE IF tool = "PIPEDRIVE" /\ (~Truthy(p.email) \/ ~Truthy(p.name))
                 THEN <<"contact details (name and email)">>
                 ELSE <<>>
         IN here \o BasicValidation(Tail(steps))

\* _identify_missing_info of a planner that has a client, for the outcome
\* of its classifier call
IdentifyMissingInfo(steps, second) ==
    IF steps = <<>> THEN <<>>
    ELSE IF second.raised THEN BasicValidation(steps)
    ELSE second.missing_information

\* is_complete as create_plan computes it, but from the steps' own fields
IsCompleteBySteps(steps, missing_info) == BasicValidation(steps) = <<>>

\* is_complete=len(missing_info) == 0
IsComplete(steps, missing_info) == Len(missing_info) = 0

\* the Plan create_plan builds (plan_id, a random uuid, is left out;
\* required_tools, list(set(...)), is kept as the set)
PlanOf(user_query, steps, missing_info, complete) ==
    [user_query |-> user_query, steps |-> steps,
     required_tools |-> {steps[i].tool_required : i \in 1..Len(steps)},
     missing_info |-> missing_info, is_complete |-> complete]

\* create_plan(user_query, available_tools), where `first` and `second` are
\* the outcomes of the classifier calls of _analyze_query and
\* _identify_missing_info. Without a client _analyze_query raises before its
\* try block and no call is made; a client that is not available raises in
\* both calls.
CreatePlan(user_query, first, second) ==
    /\ agent_pc = "idle"
    /\ llm_client # "available" => (first = ClassifierRaises /\ second = ClassifierRaises)
    /\ IF llm_client = "absent"
       THEN /\ agent_pc' = "plan_raised"
            /\ UNCHANGED <<plan, plan_source, analyses>>
       ELSE LET steps == AnalyzeQuery(user_query, first)
                missing_info == IdentifyMissingInfo(steps, second)
            IN /\ plan' = Some(PlanOf(user_query, steps, missing_info,
                                      IsComplete(steps, missing_info)))
               /\ plan_source' = "create_plan"
               /\ analyses' = <<first, second>>
               /\ agent_pc' = "planned"
    /\ UNCHANGED <<llm_client, completion, draft>>
    /\ UNCHANGED <<cliVars, reviewVars, executorVars, toolVars, memoryVars>>

\* ---------------------------------------------- DeliberationCore (agents.py)

MaxSteps == 4

\* the parameters a caller gives the first Gmail step of its plan
R_None == NoParameters
R_To == [NoParameters EXCEPT !.to = Some(<<"t","o","@","x",".","c","o","m">>)]
R_All ==
    [NoParameters EXCEPT !.to = Some(<<"t","o","@","x",".","c","o","m">>), !.recipient = Some(<<"r","c","p","t","@","x",".","c","o","m">>),
                         !.recipient_email = Some(<<"r","e","@","x",".","c","o","m">>)]
R_EmptyTo ==
    [NoParameters EXCEPT !.to = Some(<<>>), !.recipient = Some(<<"r","c","p","t","@","x",".","c","o","m">>),
                         !.recipient_email = Some(<<"r","e","@","x",".","c","o","m">>)]
R_EmailOnly == [NoParameters EXCEPT !.recipient_email = Some(<<"r","e","@","x",".","c","o","m">>)]
RecipientChoices == {R_None, R_To, R_All, R_EmptyTo, R_EmailOnly}
\* and the ones it gives the later Gmail steps
R_Later == [NoParameters EXCEPT !.to = Some(<<"l","a","t","e","r","@","x",".","c","o","m">>)]

ToolSequences == UNION {[1..n -> ToolTypes] : n \in 0..MaxSteps}

\* a plan a caller builds itself: steps of the given tools, nothing missing
CallerPlan(user_query, tools, first_gmail) ==
    LET gmail == {i \in 1..Len(tools) : tools[i] = "GMAIL"}
        steps == [i \in 1..Len(tools) |->
                    TaskStep(GetStepDescription(None, tools[i]), tools[i],
                             IF tools[i] # "GMAIL" THEN NoParameters
                             ELSE IF i = Min(gmail) THEN first_gmail
                             ELSE R_Later)]
    IN PlanOf(user_query, steps, <<>>, TRUE)

\* a client builds a Plan without the planner
GivenPlan(user_query, tools, first_gmail) ==
    /\ agent_pc = "idle"
    /\ (\A i \in 1..Len(tools) : tools[i] # "GMAIL") => first_gmail = R_None
    /\ plan' = Some(CallerPlan(user_query, tools, first_gmail))
    /\ plan_source' = "caller"
    /\ agent_pc' = "planned"
    /\ UNCHANGED <<llm_client, analyses, completion, draft>>
    /\ UNCHANGED <<cliVars, reviewVars, executorVars, toolVars, memoryVars>>

\* tool_counts[step.tool_required] = tool_counts.get(step.tool_required, 0) + 1:
\* a dict keeps its keys in the order of their first insertion
Increment(tool_counts, tool) ==
    IF \E i \in 1..Len(tool_counts) : tool_counts[i].tool = tool
    THEN [i \in 1..Len(tool_counts) |->
            IF tool_counts[i].tool = tool
            THEN [tool_counts[i] EXCEPT !.count = @ + 1]
            ELSE tool_counts[i]]
    ELSE Append(tool_counts, [tool |-> tool, count |-> 1])

RECURSIVE ToolCounts(_, _)
ToolCounts(steps, tool_counts) ==
    IF steps = <<>> THEN tool_counts
    ELSE ToolCounts(Tail(steps), Increment(tool_counts, Head(steps).tool_required))

\* max(...) keeping the last of the keys that have the largest count
MostCommonToolLast(tool_counts) ==
    tool_counts[Max({i \in 1..Len(tool_counts) :
                        \A j \in 1..Len(tool_counts) :
                            tool_counts[j].count <= tool_counts[i].count})].tool

\* max(tool_counts, key=tool_counts.get): the first of the keys that have the
\* largest count
MostCommonTool(tool_counts) ==
    tool_counts[Min({i \in 1..Len(tool_counts) :
                        \A j \in 1..Len(tool_counts) :
                            tool_counts[j].count <= tool_counts[i].count})].tool

\* _determine_task_type
DetermineTaskType(p) ==
    LET tool_counts == ToolCounts(p.steps, <<>>)
    IN IF tool_counts = <<>> THEN "EMAIL"
       ELSE LET most_common_tool == MostCommonTool(tool_counts)
            IN IF most_common_tool = "GMAIL" THEN "EMAIL"
               ELSE IF most_common_tool = "PIPEDRIVE" THEN "CRM_CONTACT"
               ELSE "GENERAL_RESPONSE"

\* step.parameters.get("recipient_email") or get("recipient") or get("to")
ToValueReversed(parameters) ==
    IF Truthy(parameters.recipient_email) THEN parameters.recipient_email
    ELSE IF Truthy(parameters.recipient) THEN parameters.recipient
    ELSE parameters.to

\* step.parameters.get("to") or get("recipient") or get("recipient_email")
ToValue(parameters) ==
    IF Truthy(parameters.to) THEN parameters.to
    ELSE IF Truthy(parameters.recipient) THEN parameters.recipient
    ELSE parameters.recipient_email

\* the steps of a plan that need the given tool
StepsFor(p, tool) ==
    LET Needs(step) == step.tool_required = tool
    IN SelectSeq(p.steps, Needs)

\* _generate_email_content reaches its call of the language model
EmailCallsLLM(p, llm) ==
    /\ StepsFor(p, "GMAIL") # <<>>
    /\ Truthy(ToValue(StepsFor(p, "GMAIL")[1].parameters))
    /\ llm = "available"

\* _generate_email_content with a default subject and body in place of the
\* failure of the language model
GenerateEmailContentDefaulting(p, llm, c) ==
    LET email_steps == StepsFor(p, "GMAIL")
    IN IF email_steps = <<>> THEN None
       ELSE IF ~Truthy(ToValue(email_steps[1].parameters)) THEN None
       ELSE IF llm # "available" \/ EmailContents[p.user_query, c] = None
       THEN Some([to |-> ToValue(email_steps[1].parameters)[1],
                  subject |-> <<>>, body |-> <<>>])
       ELSE Some([to |-> ToValue(email_steps[1].parameters)[1],
                  subject |-> EmailContents[p.user_query, c][1].subject,
                  body |-> EmailContents[p.user_query, c][1].body])

\* _generate_email_content taking the model's subject and body as they come
GenerateEmailContentUnvalidated(p, llm, c) ==
    LET email_steps == StepsFor(p, "GMAIL")
    IN IF email_steps = <<>> THEN None
       ELSE IF ~Truthy(ToValue(email_steps[1].parameters)) THEN None
       ELSE IF llm # "available" THEN None
       ELSE IF c.kind = "json" /\ Truthy(c.subject) /\ Truthy(c.body)
       THEN Some([to |-> ToValue(email_steps[1].parameters)[1],
                  subject |-> Strip(c.subject[1]), body |-> Strip(c.body[1])])
       ELSE None

\* _generate_email_content: Some(content), or None when it raises
\* RuntimeError
GenerateEmailContent(p, llm, c) ==
    LET email_steps == StepsFor(p, "GMAIL")
    IN IF email_steps = <<>> THEN None
       ELSE IF ~Truthy(ToValue(email_steps[1].parameters)) THEN None
       ELSE IF llm = "absent" THEN None
       ELSE IF llm = "unavailable" THEN None
       ELSE IF EmailContents[p.user_query, c] = None THEN None
       ELSE Some([to |-> ToValue(email_steps[1].parameters)[1],
                  subject |-> EmailContents[p.user_query, c][1].subject,
                  body |-> EmailContents[p.user_query, c][1].body])

\* _generate_crm_content: the parameters of the first Pipedrive step, with
\* the action set
GenerateCrmContent(p) ==
    LET crm_steps == StepsFor(p, "PIPEDRIVE")
        parameters == crm_steps[1].parameters
        \* parameters.get("action", "create_contact")
        action == IF parameters.action = None /\ "action" \notin parameters.null_keys
                  THEN Some(<<"c","r","e","a","t","e","_","c","o","n","t","a","c","t">>)
                  ELSE parameters.action
        \* the items whose value is not None
        crm_payload == [parameters EXCEPT !.null_keys = {}]
    IN IF crm_steps = <<>>
       THEN Some([content |-> <<"N","o"," ","C","R","M"," ","a","c","t","i","o","n","s"," ","f","o","u","n","d"," ","i","n"," ","p","l","a","n">>, query |-> p.user_query])
       ELSE Some([crm_payload EXCEPT
                    !.action = action,
                    !.null_keys = IF action = None THEN {"action"} ELSE {}])

FallbackMessage ==
    <<"H","e","r","e","'","s"," ","w","h","a","t"," ","I"," ","c","a","n"," ","h","e","l","p"," ","w","i","t","h"," ","r","i","g","h","t"," ","n","o","w",":"," ","G","m","a","i","l"," ","f","o","r"," ","e","m","a","i","l"," ","t","a","s","k","s",","," ","P","i","p","e","d","r","i","v","e"," ","f","o","r"," ","C","R","M"," ","c","o","n","t","a","c","t"," ","m","a","n","a","g","e","m","e","n","t",","," ","a","n","d"," ","C","a","l","e","n","d","l","y"," ","a","v","a","i","l","a","b","i","l","i","t","y"," ","l","o","o","k","u","p","s","."," ","L","e","t"," ","m","e"," ","k","n","o","w"," ","w","h","a","t"," ","y","o","u","'","d"," ","l","i","k","e"," ","t","o"," ","d","o",".">>

\* a generator of general content that needs the language model, as the one
\* of email content does
GenerateGeneralContentRequiringLLM(p, llm, c) ==
    IF llm = "available" /\ Truthy(GeneralResponses[c])
    THEN Some([message |-> Strip(GeneralResponses[c][1]),
               action |-> Some(<<"g","e","n","e","r","a","l","_","a","s","s","i","s","t","a","n","c","e">>)])
    ELSE None

\* _generate_general_content
GenerateGeneralContent(p, llm, c) ==
    LET general_steps == StepsFor(p, "GENERAL")
        action == IF general_steps # <<>> THEN general_steps[1].parameters.action
                  ELSE Some(<<"g","e","n","e","r","a","l","_","a","s","s","i","s","t","a","n","c","e">>)
        message == IF llm = "available" THEN GeneralResponses[c] ELSE None
    IN IF Truthy(message)
       THEN Some([message |-> Strip(message[1]), action |-> action])
       ELSE Some([message |-> FallbackMessage, action |-> action])

\* _generate_content
GenerateContent(p, task_type, llm, c) ==
    IF task_type = "EMAIL" THEN GenerateEmailContent(p, llm, c)
    ELSE IF task_type = "CRM_CONTACT" THEN GenerateCrmContent(p)
    ELSE GenerateGeneralContent(p, llm, c)

\* the responses the language model can give generate_draft: those to the
\* request it makes, and none when it makes no request
ResponsesFor(p, llm) ==
    LET task_type == DetermineTaskType(p)
    IN IF task_type = "EMAIL"
       THEN (IF EmailCallsLLM(p, llm) THEN EmailCompletions ELSE {})
       ELSE IF task_type = "CRM_CONTACT" THEN {}
       ELSE IF llm = "available" THEN GeneralCompletions
       ELSE {}

\* generate_draft(plan), where c is the response the language model gives
\* if it is called (draft_id, plan_id and the time in the metadata are left
\* out)
GenerateDraft(c) ==
    /\ agent_pc = "planned"
    /\ IF ResponsesFor(plan[1], llm_client) = {} THEN c = CompletionRaises
       ELSE c \in ResponsesFor(plan[1], llm_client)
    /\ LET p == plan[1]
           task_type == DetermineTaskType(p)
           content == GenerateContent(p, task_type, llm_client, c)
       IN /\ completion' = IF ResponsesFor(p, llm_client) = {} THEN None ELSE Some(c)
          /\ IF content = None
             THEN /\ draft' = None
                  /\ agent_pc' = "draft_raised"
             ELSE /\ draft' = Some([task_type |-> task_type, content |-> content[1],
                                    plan_steps_count |-> Len(p.steps),
                                    user_query |-> p.user_query])
                  /\ agent_pc' = "drafted"
    /\ UNCHANGED <<llm_client, plan, plan_source, analyses>>
    /\ UNCHANGED <<cliVars, reviewVars, executorVars, toolVars, memoryVars>>

\* a client of PlannerAgent and DeliberationCore, both built with the same
\* llm_client, beside a command line that stays as it starts
InitAgents ==
    /\ pending_email = EmptyPendingEmail
    /\ pending_crm = EmptyPendingCrm
    /\ current_task_type = "None"
    /\ current_prompt_field = None
    /\ tool_agents = {}
    /\ llm_available = FALSE
    /\ documents \in DocumentListings
    /\ running = TRUE
    /\ last_input = <<>>
    /\ routed = "start"
    /\ branch = "none"
    /\ asked = <<>>
    /\ warned = <<>>
    /\ calls = <<>>
    /\ notified = <<>>
    /\ valid_answers = None
    /\ llm_client \in LLMClients
    /\ AgentsIdle
    /\ ReviewerIdle
    /\ ExecutorIdle
    /\ ToolsIdle
    /\ MemoryIdle

NextAgents ==
    \/ /\ agent_pc = "idle"
       /\ \E user_query \in UserQueries, first \in ClassifierOutcomes,
             second \in ClassifierOutcomes :
             CreatePlan(user_query, first, second)
    \/ /\ agent_pc = "idle"
       /\ \E user_query \in UserQueries, tools \in ToolSequences,
             first_gmail \in RecipientChoices :
             GivenPlan(user_query, tools, first_gmail)
    \/ /\ agent_pc = "planned"
       /\ \E c \in Completions : GenerateDraft(c)

SpecAgents == InitAgents /\ [][NextAgents]_vars

\* --------------------------------------------------- float (Python float)

\* A Python float is an IEEE 754 binary64 number. The floats of the reviewer
\* are multiples of 2^-56 between -1 and 1: <<hi, lo>> stands for
\* (hi * 2^28 + lo) * 2^-56, with hi and lo of the same sign and lo below
\* 2^28 in absolute value.
Limb == 2^28

\* the float a decimal literal k/10 of the source denotes: the binary64
\* number nearest to it
FloatLiteral ==
    [k \in 0..10 |->
        CASE k = 0 -> <<0, 0>>
          [] k = 1 -> <<26843545, 161061274>>
          [] k = 2 -> <<53687091, 53687092>>
          [] k = 3 -> <<80530636, 214748364>>
          [] k = 4 -> <<107374182, 107374184>>
          [] k = 5 -> <<134217728, 0>>
          [] k = 6 -> <<161061273, 161061272>>
          [] k = 7 -> <<187904819, 53687088>>
          [] k = 8 -> <<214748364, 214748368>>
          [] k = 9 -> <<241591910, 107374184>>
          [] OTHER -> <<Limb, 0>>]

\* the spacing of the binary64 numbers around hi * 2^-28, in units of 2^-56
FloatGrid(hi) ==
    IF hi >= 2^28 THEN 16
    ELSE IF hi >= 2^27 THEN 8
    ELSE IF hi >= 2^26 THEN 4
    ELSE IF hi >= 2^25 THEN 2
    ELSE 1

\* the binary64 number nearest to a multiple of 2^-56 that is not negative,
\* ties to the even mantissa
FloatRound(hi, lo) ==
    LET g == FloatGrid(hi)
        r == lo % g
        down == lo - r
        up == IF 2 * r > g \/ (2 * r = g /\ (down \div g) % 2 = 1)
              THEN down + g ELSE down
    IN IF up = Limb THEN <<hi + 1, 0>> ELSE <<hi, up>>

\* a < b and a >= b
FloatLess(a, b) == a[1] < b[1] \/ (a[1] = b[1] /\ a[2] < b[2])
FloatGe(a, b) == ~FloatLess(a, b)

\* the difference of the exact values of a >= b >= 0, rounded
FloatDiff(a, b) ==
    LET borrow == IF a[2] < b[2] THEN 1 ELSE 0
    IN FloatRound(a[1] - b[1] - borrow, a[2] - b[2] + borrow * Limb)

\* a - b, for a and b that are not negative
FloatSub(a, b) ==
    IF FloatLess(a, b)
    THEN <<0 - FloatDiff(b, a)[1], 0 - FloatDiff(b, a)[2]>>
    ELSE FloatDiff(a, b)

\* max(a, b)
FloatMax(a, b) == IF FloatLess(a, b) THEN b ELSE a

\* ----------------------------------------------- ReviewerAgent (agents.py)

ReviewBodyMinLen == 10
ResponseMinLen == 5

\* Draft (plan_id and the metadata, which the reviewer never reads, are left
\* out)
Draft(draft_id, task_type, content) ==
    [draft_id |-> draft_id, task_type |-> task_type, content |-> content]

\* the content of an EMAIL Draft: None stands for a key that is not there or
\* holds None
EmailContent(to, subject, body) == [to |-> to, subject |-> subject, body |-> body]

\* the content of a CRM_CONTACT Draft over the keys the reviewer reads;
\* null_keys as in the parameters of a step
CrmKeys == {"action", "name", "email", "contact_id", "query", "phone", "notes"}
NoCrmContent ==
    [action |-> None, name |-> None, email |-> None, contact_id |-> None,
     query |-> None, phone |-> None, notes |-> None, null_keys |-> {}]

\* the content of a GENERAL_RESPONSE Draft: None stands for no key message
GeneralContent(message) == [message |-> message]

\* what a review has found so far
NoFindings ==
    [issues |-> <<>>, suggestions |-> <<>>, confidence_score |-> FloatLiteral[10]]

\* if found: issues.append(issue); confidence_score -= penalty
Issue(findings, found, issue, penalty) ==
    IF found
    THEN [findings EXCEPT !.issues = Append(@, issue),
                          !.confidence_score = FloatSub(@, penalty)]
    ELSE findings

\* if found: suggestions.append(suggestion); confidence_score -= penalty
Suggestion(findings, found, suggestion, penalty) ==
    IF found
    THEN [findings EXCEPT !.suggestions = Append(@, suggestion),
                          !.confidence_score = FloatSub(@, penalty)]
    ELSE findings

\* return issues, suggestions, max(0.0, confidence_score)
Floored(findings) ==
    [findings EXCEPT !.confidence_score = FloatMax(FloatLiteral[0], @)]

\* an _review_email that looks for the word as it is written
ReviewEmailCaseSensitive(content) ==
    LET f1 == Issue(NoFindings, ~Truthy(content.to),
                    "Missing recipient email address", FloatLiteral[3])
        f2 == Issue(f1, ~Truthy(content.subject), "Missing email subject", FloatLiteral[2])
        f3 == Issue(f2, ~Truthy(content.body) \/ Len(content.body[1]) < ReviewBodyMinLen,
                    "Email body is too short or missing", FloatLiteral[3])
        f4 == Issue(f3, Truthy(content.to) /\ ~Contains(content.to[1], <<"@">>),
                    "Invalid email address format", FloatLiteral[2])
        f5 == Suggestion(f4, Truthy(content.body)
                             /\ Contains(content.body[1], <<"p","l","a","c","e","h","o","l","d","e","r">>),
                         "Replace placeholder text with actual content", FloatLiteral[1])
    IN Floored(f5)

\* _review_email
ReviewEmail(content) ==
    LET f1 == Issue(NoFindings, ~Truthy(content.to),
                    "Missing recipient email address", FloatLiteral[3])
        f2 == Issue(f1, ~Truthy(content.subject), "Missing email subject", FloatLiteral[2])
        f3 == Issue(f2, ~Truthy(content.body) \/ Len(content.body[1]) < ReviewBodyMinLen,
                    "Email body is too short or missing", FloatLiteral[3])
        f4 == Issue(f3, Truthy(content.to) /\ ~Contains(content.to[1], <<"@">>),
                    "Invalid email address format", FloatLiteral[2])
        f5 == Suggestion(f4, Truthy(content.body)
                             /\ Contains(Lower(content.body[1]), <<"p","l","a","c","e","h","o","l","d","e","r">>),
                         "Replace placeholder text with actual content", FloatLiteral[1])
    IN Floored(f5)

\* "placeholder" in str(content).lower(): none of the keys of this model
\* holds the word, and the text of a value holds it when the value does
StringifiedHasPlaceholder(content) ==
    \E key \in CrmKeys :
        content[key] # None /\ Contains(Lower(content[key][1]), <<"p","l","a","c","e","h","o","l","d","e","r">>)

\* _review_crm
ReviewCrm(content) ==
    LET \* content.get("action", "create_contact")
        action == IF content.action = None /\ "action" \notin content.null_keys
                  THEN Some(<<"c","r","e","a","t","e","_","c","o","n","t","a","c","t">>)
                  ELSE content.action
        create == action = Some(<<"c","r","e","a","t","e","_","c","o","n","t","a","c","t">>)
        update == action = Some(<<"u","p","d","a","t","e","_","c","o","n","t","a","c","t">>)
        search == action = Some(<<"s","e","a","r","c","h","_","c","o","n","t","a","c","t","s">>)
        malformed == Truthy(content.email) /\ ~Contains(content.email[1], <<"@">>)
        f1 == Issue(NoFindings,
                    create /\ ~Truthy(content.name) /\ ~Truthy(content.email),
                    "Missing contact name or email", FloatLiteral[4])
        f2 == Issue(f1, create /\ malformed, "Invalid email format", FloatLiteral[2])
        f3 == Issue(f2, update /\ ~Truthy(content.contact_id),
                    "Missing contact ID for update", FloatLiteral[4])
        f4 == Issue(f3, search /\ ~Truthy(content.query),
                    "Missing search query", FloatLiteral[3])
        f5 == Issue(f4, malformed, "Invalid email format", FloatLiteral[2])
        f6 == Suggestion(f5, StringifiedHasPlaceholder(content),
                         "Replace placeholder values with actual data", FloatLiteral[2])
        f7 == Suggestion(f6, create /\ Truthy(content.email) /\ ~Truthy(content.phone),
                         "Consider adding phone number for better contact info",
                         FloatLiteral[0])
        f8 == Suggestion(f7, (create \/ update) /\ ~Truthy(content.notes),
                         "Consider adding notes for context", FloatLiteral[0])
    IN Floored(f8)

\* an _review_general that measures the message as it comes
ReviewGeneralUntrimmed(content) ==
    LET message == IF content.message = None THEN <<>> ELSE content.message[1]
    IN IF message = <<>>
       THEN [NoFindings EXCEPT !.issues = <<"Missing response message">>,
                               !.confidence_score = FloatLiteral[4]]
       ELSE IF Len(message) < ResponseMinLen
       THEN [NoFindings EXCEPT !.issues = <<"Response is too short">>,
                               !.confidence_score = FloatLiteral[6]]
       ELSE NoFindings

\* _review_general
ReviewGeneral(content) ==
    LET \* content.get("message", "").strip()
        message == IF content.message = None THEN <<>> ELSE Strip(content.message[1])
    IN IF message = <<>>
       THEN [NoFindings EXCEPT !.issues = <<"Missing response message">>,
                               !.confidence_score = FloatLiteral[4]]
       ELSE IF Len(message) < ResponseMinLen
       THEN [NoFindings EXCEPT !.issues = <<"Response is too short">>,
                               !.confidence_score = FloatLiteral[6]]
       ELSE NoFindings

\* the findings of review_draft for the task type of the draft
Findings(d) ==
    IF d.task_type = "EMAIL" THEN ReviewEmail(d.content)
    ELSE IF d.task_type = "CRM_CONTACT" THEN ReviewCrm(d.content)
    ELSE ReviewGeneral(d.content)

\* a mapping of scores to levels that leaves the bounds out
ConfidenceLevelStrict(confidence_score) ==
    IF FloatLess(FloatLiteral[8], confidence_score) THEN "HIGH"
    ELSE IF FloatLess(FloatLiteral[6], confidence_score) THEN "MEDIUM"
    ELSE "LOW"

\* review_draft: the confidence level of a score
ConfidenceLevel(confidence_score) ==
    IF FloatGe(confidence_score, FloatLiteral[8]) THEN "HIGH"
    ELSE IF FloatGe(confidence_score, FloatLiteral[6]) THEN "MEDIUM"
    ELSE "LOW"

\* an approval that looks at the score only
ApprovedByScore(confidence_score, issues, threshold) ==
    FloatGe(confidence_score, threshold)

\* review_draft: approved
Approved(confidence_score, issues, threshold) ==
    FloatGe(confidence_score, threshold) /\ Len(issues) = 0

\* review_draft: requires_user_review
RequiresUserReview(confidence_score, issues, threshold) ==
    FloatLess(confidence_score, threshold) \/ Len(issues) > 0

\* ReviewResult
ReviewResult(draft_id, findings, threshold) ==
    [draft_id |-> draft_id,
     confidence_score |-> findings.confidence_score,
     confidence_level |-> ConfidenceLevel(findings.confidence_score),
     issues |-> findings.issues,
     suggestions |-> findings.suggestions,
     approved |-> Approved(findings.confidence_score, findings.issues, threshold),
     requires_user_review |->
        RequiresUserReview(findings.confidence_score, findings.issues, threshold)]

\* review_draft of a reviewer with the given confidence_threshold
ReviewDraft(d, threshold) == ReviewResult(d.draft_id, Findings(d), threshold)

\* the Drafts of this model
D_To == {None, Some(<<"b","o","b">>), Some(<<"b","o","b","@","c","o",".","c","o","m">>)}
D_Subject == {None, Some(<<"R","e","p","o","r","t">>)}
B_Hi == <<"h","i">>
B_Nine == <<"C","a","l","l"," ","m","e",".",".">>
B_Ten == <<"C","a","l","l"," ","m","e",".",".",".">>
B_Placeholder == <<"S","e","e"," ","t","h","e"," ","p","l","a","c","e","h","o","l","d","e","r">>
B_PlaceHolder == <<"S","e","e"," ","t","h","e"," ","P","l","a","c","e","H","o","l","d","e","r">>
D_Body ==
    {None, Some(B_Hi), Some(B_Nine), Some(B_Ten), Some(B_Placeholder),
     Some(B_PlaceHolder)}
EmailDrafts ==
    {Draft("d1", "EMAIL", EmailContent(to, subject, body)) :
        to \in D_To, subject \in D_Subject, body \in D_Body}
    \cup {Draft("d1", "EMAIL", EmailContent(Some(<<>>), Some(<<>>), Some(<<>>)))}

D_Email == {None, Some(<<"j","a","n","e",".","e","x","a","m","p","l","e",".","c","o","m">>), Some(<<"j","a","n","e","@","e","x","a","m","p","l","e",".","c","o","m">>)}
D_Notes == {None, Some(<<"A"," ","P","l","a","c","e","h","o","l","d","e","r">>)}
CreateDrafts ==
    {Draft("d1", "CRM_CONTACT",
           [NoCrmContent EXCEPT !.action = Some(<<"c","r","e","a","t","e","_","c","o","n","t","a","c","t">>), !.name = name,
                                !.email = email, !.notes = notes]) :
        name \in {None, Some(<<"J","a","n","e"," ","D","o","e">>)}, email \in D_Email, notes \in D_Notes}
    \cup
    {Draft("d1", "CRM_CONTACT", [NoCrmContent EXCEPT !.email = email]) :
        email \in D_Email}
    \cup
    {Draft("d1", "CRM_CONTACT",
           [NoCrmContent EXCEPT !.action = Some(<<"c","r","e","a","t","e","_","c","o","n","t","a","c","t">>),
                                !.name = Some(<<"J","a","n","e"," ","D","o","e">>),
                                !.email = Some(<<"j","a","n","e","@","e","x","a","m","p","l","e",".","c","o","m">>),
                                !.phone = Some(<<"5","5","5"," ","0","1","0","0">>),
                                !.notes = Some(<<"m","e","t"," ","a","t"," ","t","h","e"," ","f","a","i","r">>)])}
UpdateDrafts ==
    {Draft("d1", "CRM_CONTACT",
           [NoCrmContent EXCEPT !.action = Some(<<"u","p","d","a","t","e","_","c","o","n","t","a","c","t">>),
                                !.contact_id = contact_id, !.email = email,
                                !.notes = notes]) :
        contact_id \in {None, Some(<<"7">>)},
        email \in {None, Some(<<"j","a","n","e",".","e","x","a","m","p","l","e",".","c","o","m">>)}, notes \in D_Notes}
SearchDrafts ==
    {Draft("d1", "CRM_CONTACT",
           [NoCrmContent EXCEPT !.action = Some(<<"s","e","a","r","c","h","_","c","o","n","t","a","c","t","s">>),
                                !.query = query, !.email = email, !.notes = notes]) :
        query \in {None, Some(<<"j","a","n","e">>)},
        email \in {None, Some(<<"j","a","n","e",".","e","x","a","m","p","l","e",".","c","o","m">>)}, notes \in D_Notes}
OtherCrmDrafts ==
    {Draft("d1", "CRM_CONTACT",
           [NoCrmContent EXCEPT !.action = Some(<<"d","e","l","e","t","e","_","c","o","n","t","a","c","t">>), !.email = email]) :
        email \in {None, Some(<<"j","a","n","e",".","e","x","a","m","p","l","e",".","c","o","m">>)}}
    \cup {Draft("d1", "CRM_CONTACT", [NoCrmContent EXCEPT !.null_keys = {"action"}])}
CrmDrafts == CreateDrafts \cup UpdateDrafts \cup SearchDrafts \cup OtherCrmDrafts

GeneralDrafts ==
    {Draft("d1", "GENERAL_RESPONSE", GeneralContent(message)) :
        message \in {None, Some(<<>>), Some(<<" "," "," ">>), Some(<<"h","e","y">>), Some(<<" ","h","e","y"," "," ">>),
                     Some(<<"h","e","l","l","o">>), Some(FallbackMessage)}}

\* the Drafts a client keeps to have them reviewed again: they have the
\* content of another Draft and an id of their own
KeptDrafts ==
    {Draft("d2", "EMAIL", EmailContent(Some(<<"b","o","b","@","c","o",".","c","o","m">>), Some(<<"R","e","p","o","r","t">>), Some(B_Ten))),
     Draft("d2", "EMAIL", EmailContent(Some(<<"b","o","b">>), None, Some(B_PlaceHolder))),
     Draft("d2", "CRM_CONTACT",
           [NoCrmContent EXCEPT !.action = Some(<<"c","r","e","a","t","e","_","c","o","n","t","a","c","t">>),
                                !.email = Some(<<"j","a","n","e",".","e","x","a","m","p","l","e",".","c","o","m">>)]),
     Draft("d2", "CRM_CONTACT",
           [NoCrmContent EXCEPT !.action = Some(<<"s","e","a","r","c","h","_","c","o","n","t","a","c","t","s">>),
                                !.query = Some(<<"j","a","n","e">>)]),
     Draft("d2", "GENERAL_RESPONSE", GeneralContent(Some(<<"h","e","y">>))),
     Draft("d2", "GENERAL_RESPONSE", GeneralContent(Some(FallbackMessage)))}

Drafts == EmailDrafts \cup CrmDrafts \cup GeneralDrafts \cup KeptDrafts

\* the thresholds a reviewer is built with: the default 0.7, and 0.5 and 0.9
Thresholds == {FloatLiteral[5], FloatLiteral[7], FloatLiteral[9]}

\* review_draft, computed once for each Draft and threshold of the model
Reviews == [d \in Drafts, t \in Thresholds |-> ReviewDraft(d, t)]

MaxReviews == 3

\* the call of review_draft before this one was for another Draft
AfterOther(d) == last_review # None /\ last_review[1].before # d

\* a review_draft that remembers the Drafts it has seen and is stricter with
\* them the next time
ReviewAgain(d) ==
    LET result == Reviews[d, confidence_threshold[1]]
        seen == kept_draft = Some(d) /\ kept_results # <<>>
        again == IF seen THEN [result EXCEPT !.confidence_level = "LOW",
                                             !.approved = FALSE]
                 ELSE result
    IN /\ last_review' = Some([before |-> d, after |-> d, result |-> again])
       /\ kept_results' =
             IF kept_draft = Some(d)
             THEN Append(kept_results, [result |-> again, after_other |-> AfterOther(d)])
             ELSE kept_results
       /\ UNCHANGED <<confidence_threshold, kept_draft>>
       /\ UNCHANGED <<cliVars, agentVars, executorVars, toolVars, memoryVars>>

\* review_draft(d): the reviewer reads the Draft and its own threshold, and
\* writes neither. The client notes the call, and the result when the Draft
\* is the one it keeps.
Review(d) ==
    LET result == Reviews[d, confidence_threshold[1]]
    IN /\ last_review' = Some([before |-> d, after |-> d, result |-> result])
       /\ kept_results' =
             IF kept_draft = Some(d)
             THEN Append(kept_results, [result |-> result, after_other |-> AfterOther(d)])
             ELSE kept_results
       /\ UNCHANGED <<confidence_threshold, kept_draft>>
       /\ UNCHANGED <<cliVars, agentVars, executorVars, toolVars, memoryVars>>

\* a command line that has read no line and has no tool and no model
CliAtRest ==
    /\ pending_email = EmptyPendingEmail
    /\ pending_crm = EmptyPendingCrm
    /\ current_task_type = "None"
    /\ current_prompt_field = None
    /\ tool_agents = {}
    /\ llm_available = FALSE
    /\ documents \in DocumentListings
    /\ running = TRUE
    /\ last_input = <<>>
    /\ routed = "start"
    /\ branch = "none"
    /\ asked = <<>>
    /\ warned = <<>>
    /\ calls = <<>>
    /\ notified = <<>>
    /\ valid_answers = None

\* a client of a ReviewerAgent built with one of the thresholds, which keeps
\* one Draft and has every Draft reviewed
InitReview ==
    /\ CliAtRest
    /\ llm_client = "absent"
    /\ AgentsIdle
    /\ ExecutorIdle
    /\ ToolsIdle
    /\ MemoryIdle
    /\ confidence_threshold \in {Some(t) : t \in Thresholds}
    /\ kept_draft \in {Some(d) : d \in KeptDrafts}
    /\ kept_results = <<>>
    /\ last_review = None

NextReview ==
    /\ Len(kept_results) < MaxReviews
    /\ \E d \in Drafts : Review(d)

SpecReview == InitReview /\ [][NextReview]_vars

\* ------------------------------------------------ Executor (spec, 4.5)

MaxPlanSteps == 3

\* the steps of the plans given to the executor: one of each tool with no
\* action of its own, and one that names the action general_assistance
ExecutorSteps ==
    {[tool_required |-> t, action |-> None] : t \in ToolTypes}
    \cup {[tool_required |-> "CALENDLY", action |-> Some("general_assistance")]}
StepSequences == UNION {[1..n -> ExecutorSteps] : n \in 0..MaxPlanSteps}

\* what a collaborator's execute returns: success, or a failure with its
\* error
CollaboratorOk == [success |-> TRUE, error |-> None]
CollaboratorFailed == [success |-> FALSE, error |-> Some("collaborator error")]
CollaboratorOutcomes == {CollaboratorOk, CollaboratorFailed}

\* ToolExecution (execution_id, action, parameters and result are left out)
ToolExecution(tool_type, success, error) ==
    [tool_type |-> tool_type, success |-> success, error |-> error]

\* the step is answered without a collaborator
IsGeneralStep(step) ==
    step.tool_required = "GENERAL" \/ step.action = Some("general_assistance")
\* the step goes to a collaborator
CallsCollaborator(step, collaborators) ==
    ~IsGeneralStep(step) /\ step.tool_required \in collaborators

\* the ToolExecution of one step: a synthetic success for a general step, a
\* failure when the tool has no collaborator, and what the collaborator
\* returns otherwise
ExecuteStep(step, collaborators, outcome) ==
    IF IsGeneralStep(step) THEN ToolExecution(step.tool_required, TRUE, None)
    ELSE IF step.tool_required \notin collaborators
    THEN ToolExecution(step.tool_required, FALSE, Some("Tool not available"))
    ELSE ToolExecution(step.tool_required, outcome.success, outcome.error)

\* an executor that looks its collaborator up without a test and raises when
\* there is none
ExecuteStepsUnchecked(steps, collaborators, outcomes) ==
    IF \E i \in 1..Len(steps) :
          ~IsGeneralStep(steps[i]) /\ steps[i].tool_required \notin collaborators
    THEN None
    ELSE Some([i \in 1..Len(steps) |-> ExecuteStep(steps[i], collaborators, outcomes[i])])

\* execute_draft: one ToolExecution for each step, in the order of the steps
\* (None: it raised)
ExecuteSteps(steps, collaborators, outcomes) ==
    Some([i \in 1..Len(steps) |-> ExecuteStep(steps[i], collaborators, outcomes[i])])

\* a client has a plan executed; outcomes[i] is what the collaborator of step
\* i returns if it is called
ExecuteDraft(steps, outcomes) ==
    /\ executed = None
    /\ Len(outcomes) = Len(steps)
    /\ \A i \in 1..Len(steps) :
          ~CallsCollaborator(steps[i], executor_tools) => outcomes[i] = CollaboratorOk
    /\ executed' = Some([steps |-> steps, outcomes |-> outcomes,
                         executions |-> ExecuteSteps(steps, executor_tools, outcomes)])
    /\ UNCHANGED executor_tools
    /\ UNCHANGED <<cliVars, agentVars, reviewVars, toolVars, memoryVars>>

\* an executor built with collaborators for some of the tools
InitExecutor ==
    /\ CliAtRest
    /\ llm_client = "absent"
    /\ AgentsIdle
    /\ ReviewerIdle
    /\ executor_tools \in SUBSET {"GMAIL", "PIPEDRIVE", "CALENDLY"}
    /\ executed = None
    /\ ToolsIdle
    /\ MemoryIdle

NextExecutor ==
    /\ executed = None
    /\ \E steps \in StepSequences :
          \E outcomes \in [1..Len(steps) -> CollaboratorOutcomes] :
             ExecuteDraft(steps, outcomes)

SpecExecutor == InitExecutor /\ [][NextExecutor]_vars

\* ---------------------------------------------- tool agents (tools.py)

\* what the body of execute does: it returns a ToolExecution or raises an
\* exception with a message
Return(execution) == [raised |-> FALSE, message |-> "", execution |-> Some(execution)]
Raise(message) == [raised |-> TRUE, message |-> message, execution |-> None]

\* an execute without its except clause
Uncaught(tool_type, outcome) == outcome

\* the clause `except Exception as e` of execute:
\* return ToolExecution(..., success=False, error=str(e))
Caught(tool_type, outcome) ==
    IF outcome.raised
    THEN Return(ToolExecution(tool_type, FALSE, Some(outcome.message)))
    ELSE outcome

\* the answers of the service a tool agent calls: it does what is asked, it
\* answers with an error, or the call raises
ApiAnswers == {"ok", "refused", "raises"}

\* the parameter mappings of the calls of this model
GmailParameters ==
    [to : {None, Some(<<"b","o","b","@","c","o",".","c","o","m">>)},
     subject : {None, Some(<<>>), Some(<<"H","e","l","l","o">>)},
     body : {None, Some(<<"S","e","e"," ","y","o","u"," ","a","t"," ","n","o","o","n",".">>)},
     from : {None, Some(<<"m","e","@","c","o",".","c","o","m">>)}]
PipedriveParameters ==
    {p \in [name : {None, Some(<<"J","a","n","e"," ","D","o","e">>)},
            email : {None, Some(<<"j","a","n","e","@","e","x","a","m","p","l","e",".","c","o","m">>)},
            contact_id : {None, Some(<<"4","2">>)},
            query : {None, Some(<<" "," ">>), Some(<<"j","a","n","e">>)},
            null_keys : {{}, {"query"}}] :
        "query" \in p.null_keys => p.query = None}
D_Past == <<"2","0","2","0","-","0","1","-","0","1">>
D_Future == <<"2","0","9","9","-","0","1","-","0","1">>
D_Invalid == <<"n","e","x","t"," ","w","e","e","k">>
CalendlyParameters ==
    [date : {None, Some(D_Past), Some(D_Future), Some(D_Invalid)},
     calendly_token : {None, Some(<<"t","o","k","e","n">>)}]

\* the action names of the calls of this model, one of them unknown to every
\* tool agent
ActionNames ==
    {"send_email", "create_contact", "update_contact", "search_contacts",
     "list_contacts", "list_available_slots", "archive"}

\* GmailToolAgent._send_email: `delivered` says that the transport does not
\* raise, `saved` that _write_outbox does not
GmailSendEmail(parameters, delivered, saved) ==
    IF ~Truthy(parameters.to) THEN Raise("Missing required parameter: to")
    ELSE IF ~Truthy(parameters.subject) THEN Raise("Missing required parameter: subject")
    ELSE IF ~Truthy(parameters.body) THEN Raise("Missing required parameter: body")
    ELSE IF ~Truthy(parameters.from) /\ ~credentials.gmail_address
    THEN Raise("Missing sender email address.")
    ELSE IF credentials.gmail_transport # "none" /\ delivered
    THEN Return(ToolExecution("GMAIL", TRUE, None))
    ELSE IF ~saved THEN Raise("<outbox exception>")
    ELSE Return(ToolExecution("GMAIL", FALSE,
                              Some(IF credentials.gmail_transport = "none"
                                   THEN "No email transport is configured."
                                   ELSE "<transport exception>")))

\* GmailToolAgent.execute
GmailExecuteOutcome(action, parameters, delivered, saved) ==
    Caught("GMAIL",
           IF action = "send_email" THEN GmailSendEmail(parameters, delivered, saved)
           ELSE Raise("Unknown Gmail action"))

\* what the four actions of PipedriveToolAgent do once the parameters are
\* accepted: the call of the client when there is one and `wanted` holds,
\* else the simulated response
PipedriveCall(wanted, api) ==
    IF credentials.pipedrive_client /\ wanted
    THEN IF api = "ok" THEN Return(ToolExecution("PIPEDRIVE", TRUE, None))
         ELSE Return(ToolExecution("PIPEDRIVE", FALSE,
                                   Some(IF api = "refused" THEN "<error of the response>"
                                        ELSE "<client exception>")))
    ELSE Return(ToolExecution("PIPEDRIVE", FALSE,
                              Some("Pipedrive client not available - simulated response")))

\* PipedriveToolAgent._create_contact
PipedriveCreateContact(parameters, api) ==
    IF ~Truthy(parameters.name) /\ ~Truthy(parameters.email)
    THEN Raise("Missing required parameter: name or email")
    ELSE PipedriveCall(TRUE, api)

\* PipedriveToolAgent._update_contact
PipedriveUpdateContact(parameters, api) ==
    IF ~Truthy(parameters.contact_id) THEN Raise("Missing required parameter: contact_id")
    ELSE PipedriveCall(Truthy(parameters.name) \/ Truthy(parameters.email), api)

\* parameters.get('query', '').strip() for the queries of this model
StrippedQuery == [q \in {<<" "," ">>, <<"j","a","n","e">>} |-> Strip(q)]

\* PipedriveToolAgent._search_contacts
PipedriveSearchContacts(parameters, api) ==
    IF "query" \in parameters.null_keys
    THEN Raise("'NoneType' object has no attribute 'strip'")
    ELSE IF parameters.query = None \/ StrippedQuery[parameters.query[1]] = <<>>
    THEN Raise("Missing required parameter: query")
    ELSE PipedriveCall(TRUE, api)

\* PipedriveToolAgent.execute
PipedriveExecuteOutcome(action, parameters, api) ==
    Caught("PIPEDRIVE",
           IF action = "create_contact" THEN PipedriveCreateContact(parameters, api)
           ELSE IF action = "update_contact" THEN PipedriveUpdateContact(parameters, api)
           ELSE IF action = "search_contacts" THEN PipedriveSearchContacts(parameters, api)
           ELSE IF action = "list_contacts" THEN PipedriveCall(TRUE, api)
           ELSE Raise("Unknown Pipedrive action"))

\* CalendlyToolAgent._parse_date and the comparison with today, for the
\* dates of this model
ParseDate(date_str) ==
    IF ~Truthy(date_str) THEN "today"
    ELSE IF date_str[1] = D_Past THEN "past"
    ELSE IF date_str[1] = D_Future THEN "future"
    ELSE "invalid"

\* CalendlyToolAgent._list_available_slots
CalendlyListAvailableSlots(parameters, api) ==
    IF ~Truthy(parameters.calendly_token) /\ ~credentials.calendly_token
    THEN Raise("Calendly API token is not configured.")
    ELSE IF ~credentials.calendly_event_type_uuid
    THEN Raise("Calendly event type UUID is missing.")
    ELSE IF ~credentials.calendly_scheduling_link
    THEN Raise("Calendly scheduling link is missing.")
    ELSE IF ParseDate(parameters.date) = "invalid" THEN Raise("Invalid date format")
    ELSE IF ParseDate(parameters.date) = "past"
    THEN Return(ToolExecution("CALENDLY", FALSE, Some("The date has already passed.")))
    ELSE IF api = "raises" THEN Raise("Calendly API request failed")
    ELSE IF api = "refused" THEN Raise("Calendly API error")
    ELSE Return(ToolExecution("CALENDLY", TRUE, None))

\* CalendlyToolAgent.execute
CalendlyExecuteOutcome(action, parameters, api) ==
    Caught("CALENDLY",
           IF action = "list_available_slots"
           THEN CalendlyListAvailableSlots(parameters, api)
           ELSE Raise("Unknown Calendly action"))

\* the call a client made and what came of it
Reply(tool_type, action, parameters, outcome) ==
    /\ tool_reply = None
    /\ tool_reply' = Some([tool_type |-> tool_type, action |-> action,
                           parameters |-> parameters, outcome |-> outcome])
    /\ UNCHANGED credentials
    /\ UNCHANGED <<cliVars, agentVars, reviewVars, executorVars, memoryVars>>

\* a client calls execute of one of the tool agents
GmailExecute(action, parameters, delivered, saved) ==
    Reply("GMAIL", action, parameters,
          GmailExecuteOutcome(action, parameters, delivered, saved))
PipedriveExecute(action, parameters, api) ==
    Reply("PIPEDRIVE", action, parameters, PipedriveExecuteOutcome(action, parameters, api))
CalendlyExecute(action, parameters, api) ==
    Reply("CALENDLY", action, parameters, CalendlyExecuteOutcome(action, parameters, api))

\* the tool agents built by initialize_tool_agents from some credentials
InitTools ==
    /\ CliAtRest
    /\ llm_client = "absent"
    /\ AgentsIdle
    /\ ReviewerIdle
    /\ ExecutorIdle
    /\ MemoryIdle
    /\ credentials \in [gmail_address : BOOLEAN,
                        gmail_transport : {"smtp", "gmail_api", "none"},
                        pipedrive_client : BOOLEAN,
                        calendly_token : BOOLEAN,
                        calendly_event_type_uuid : BOOLEAN,
                        calendly_scheduling_link : BOOLEAN]
    /\ tool_reply = None

NextTools ==
    \/ /\ tool_reply = None
       /\ \E action \in ActionNames, parameters \in GmailParameters,
             delivered \in BOOLEAN, saved \in BOOLEAN :
             GmailExecute(action, parameters, delivered, saved)
    \/ /\ tool_reply = None
       /\ \E action \in ActionNames, parameters \in PipedriveParameters, api \in ApiAnswers :
             PipedriveExecute(action, parameters, api)
    \/ /\ tool_reply = None
       /\ \E action \in ActionNames, parameters \in CalendlyParameters, api \in ApiAnswers :
             CalendlyExecute(action, parameters, api)

SpecTools == InitTools /\ [][NextTools]_vars

\* ------------------------------------------------ memory (memory.py)

HistoryCap == 100
MaxStores == 103

\* A faulty cap: it keeps the oldest entries.
KeepOldest(entries) ==
    IF Len(entries) > HistoryCap THEN SubSeq(entries, 1, HistoryCap) ELSE entries

\* `if len(interactions) > 100: interactions = interactions[-100:]`
KeepLatest(entries) ==
    IF Len(entries) > HistoryCap
    THEN SubSeq(entries, Len(entries) - HistoryCap + 1, Len(entries))
    ELSE entries

\* store_interaction returns the entry id: the list of the file is read, the
\* entry appended, the list capped and written back.  The entry ids of this
\* model are the numbers 1, 2, .. in the order of the calls that stored them.
StoreInteraction ==
    /\ interactions # None
    /\ Len(stored) < MaxStores
    /\ LET entry_id == Len(stored) + 1
       IN /\ interactions' = Some(KeepLatest(Append(interactions[1], entry_id)))
          /\ stored' = Append(stored, entry_id)
    /\ UNCHANGED <<cliVars, agentVars, reviewVars, executorVars, toolVars>>

\* store_interaction returns "": writing the file raised after open(.., 'w')
\* had truncated it, and the file holds no valid JSON from then on (every
\* later call fails in json.load and returns "" as well)
StoreInteractionFails ==
    /\ interactions # None
    /\ interactions' = None
    /\ UNCHANGED stored
    /\ UNCHANGED <<cliVars, agentVars, reviewVars, executorVars, toolVars>>

\* a MemoryAgent over a directory that holds no file yet
InitMemory ==
    /\ CliAtRest
    /\ llm_client = "absent"
    /\ AgentsIdle
    /\ ReviewerIdle
    /\ ExecutorIdle
    /\ ToolsIdle
    /\ interactions = Some(<<>>)
    /\ stored = <<>>

NextMemory ==
    \/ StoreInteraction
    \/ StoreInteractionFails

SpecMemory == InitMemory /\ [][NextMemory]_vars
\* ============================================================ properties

\* the fields a dialogue fills, by task
EmailFields == {"to", "subject", "content"}
CrmFields == {"name", "email"}
InDialogue == current_task_type \in {"email", "crm"}

\* the first missing field of the pending task in the order
\* to, subject, content / name, email; None when nothing is missing
FirstMissing ==
    IF current_task_type = "email"
    THEN IF ~Truthy(pending_email.to) THEN <<"email", "to">>
         ELSE IF ~Truthy(pending_email.subject) THEN <<"email", "subject">>
         ELSE IF ~Truthy(pending_email.content) THEN <<"email", "content">>
         ELSE None
    ELSE IF current_task_type = "crm"
    THEN IF ~Truthy(pending_crm.name) THEN <<"crm", "name">>
         ELSE IF ~Truthy(pending_crm.email) THEN <<"crm", "email">>
         ELSE None
    ELSE None

\* C1: while an email or CRM dialogue goes on (it neither completes nor is
\* cancelled in the step), a field that holds a value keeps that value.
C1_FilledFieldsKept ==
    [][(InDialogue /\ current_task_type' = current_task_type) =>
          /\ \A f \in EmailFields :
                Truthy(pending_email[f]) => pending_email'[f] = pending_email[f]
          /\ \A f \in CrmFields :
                Truthy(pending_crm[f]) => pending_crm'[f] = pending_crm[f]]_vars

C3_AsksFirstMissing ==
    \A i \in 1..Len(asked) : asked[i] = FirstMissing

\* C4: after the request "send an email to bob@co.com" the dialogue has
\* asked for the subject and has called no tool.
C4_ScenarioA ==
    (routed = "request" /\ last_input = In_SendBob) =>
        /\ asked = << <<"email", "subject">> >>
        /\ calls = <<>>

JaneContact == [name |-> Some(<<"J","a","n","e"," ","S","m","i","t","h">>), email |-> Some(<<"j","a","n","e","@","c","o","m","p","a","n","y",".","c","o","m">>)]

\* C5: the request "create a contact for jane@company.com" keeps the
\* address and asks for the name only; the answer "name is Jane Smith" to it
\* ends the dialogue, creating the contact Jane Smith, jane@company.com when
\* Pipedrive is configured.
C5_ScenarioB ==
    [][/\ (routed' = "request" /\ last_input' = In_ContactJane) =>
             /\ asked' = << <<"crm", "name">> >>
             /\ pending_crm'.name = None
             /\ pending_crm'.email = JaneContact.email
             /\ calls' = <<>>
       /\ (/\ routed = "request" /\ last_input = In_ContactJane
           /\ routed' = "answer" /\ last_input' = In_NameJane) =>
             /\ current_task_type' = "None"
             /\ asked' = <<>> /\ warned' = <<>>
             /\ calls' = IF "PIPEDRIVE" \in tool_agents
                         THEN <<[tool |-> "PIPEDRIVE", action |-> "create_contact",
                                 parameters |-> JaneContact]>>
                         ELSE <<>>]_vars

\* the contact of the scenario has been created
C5_Witness ==
    /\ routed = "answer" /\ last_input = In_NameJane
    /\ calls = <<[tool |-> "PIPEDRIVE", action |-> "create_contact",
                  parameters |-> JaneContact]>>
    /\ current_task_type = "None"

\* C6: a cancel keyword read during an email or CRM dialogue clears every
\* pending field, the task type and the prompt field and calls no tool; the
\* next line that is no command is routed as a request.
C6_CancelClears ==
    [][/\ (InDialogue /\ Lower(last_input') \in CancelWords) =>
             /\ routed' = "cancel"
             /\ pending_email' = EmptyPendingEmail
             /\ pending_crm' = EmptyPendingCrm
             /\ current_task_type' = "None"
             /\ current_prompt_field' = None
             /\ calls' = <<>> /\ asked' = <<>>
       /\ (/\ routed = "cancel"
           /\ last_input' # <<>>
           /\ Lower(last_input') \notin CommandWords) =>
             routed' = "request"]_vars

\* "STOP" has cancelled a dialogue
C6_Witness ==
    /\ routed = "cancel"
    /\ last_input = In_Stop
    /\ current_task_type = "None"

\* C7: an answer invalid for the awaited field leaves the pending fields,
\* the task type and the awaited field as they were, and calls no tool.
C7_InvalidAnswerKeepsState ==
    [][(/\ InDialogue /\ current_prompt_field # None
        /\ routed' = "answer"
        /\ InvalidAnswer(current_prompt_field, last_input')) =>
          /\ UNCHANGED <<pending_email, pending_crm, current_task_type,
                         current_prompt_field>>
          /\ calls' = <<>>]_vars

\* C8: an answer to the question for field f that leaves the dialogue
\* pending changes no pending field other than f.
C8_OnlyAwaitedFieldChanges ==
    [][(/\ InDialogue /\ current_prompt_field # None
        /\ routed' = "answer"
        /\ current_task_type' # "None") =>
          /\ \A k \in DOMAIN pending_email :
                (current_prompt_field # <<"email", k>>) =>
                    pending_email'[k] = pending_email[k]
          /\ \A k \in DOMAIN pending_crm :
                (current_prompt_field # <<"crm", k>>) =>
                    pending_crm'[k] = pending_crm[k]]_vars

\* a subject answer has been stored and the dialogue goes on
C8_Witness ==
    /\ routed = "answer"
    /\ current_task_type = "email"
    /\ current_prompt_field = <<"email", "content">>
    /\ Truthy(pending_email.subject)
    /\ Truthy(pending_email.to)
    /\ ~Truthy(pending_email.content)

\* C9: every call of the email tool carries a non-empty recipient, subject
\* and body, and every call of the CRM tool a non-empty name and email.
C9_ToolsGetCompleteFields ==
    \A i \in 1..Len(calls) :
        /\ calls[i].tool = "GMAIL" =>
              /\ Truthy(calls[i].parameters.to)
              /\ Truthy(calls[i].parameters.subject)
              /\ Truthy(calls[i].parameters.body)
        /\ calls[i].tool = "PIPEDRIVE" =>
              /\ Truthy(calls[i].parameters.name)
              /\ Truthy(calls[i].parameters.email)

\* the texts the generators return when the language model or the document
\* fails
FailureTexts ==
    {BodyErrorText, LLMUnavailableText, ProcessErrorText, DocumentErrorText,
     DocumentNotFoundText}

\* C10: no call of the email tool carries, as its body, the text of a
\* failed generation.
C10_NoFailedBodySent ==
    \A i \in 1..Len(calls) :
        calls[i].tool = "GMAIL" => calls[i].parameters.body \notin {Some(t) : t \in FailureTexts}

\* C11: when the answer to the content prompt names an available document
\* and no language model is available, the content kept for the email (seen
\* as the body of the email the same turn sends) is the text of that
\* document.
C11_DocumentTextKeptWithoutLLM ==
    [][(/\ current_prompt_field = <<"email", "content">>
        /\ ~llm_available
        /\ routed' = "answer"
        /\ Line(last_input').requested_document # None
        /\ Len(calls') > 0)
       => calls'[1].parameters.body = Some(DocumentText)]_vars

\* the keyword tests of process_user_request, on the lower-cased request
CrmRule(l) ==
    /\ ContainsAny(l, {<<"c","o","n","t","a","c","t">>, <<"c","r","m">>, <<"p","i","p","e","d","r","i","v","e">>, <<"a","d","d">>})
    /\ ~ContainsAny(l, {<<"s","e","n","d"," ","e","m","a","i","l">>, <<"e","m","a","i","l"," ","t","o">>})
EmailRule(l) ==
    \/ ContainsAny(l, {<<"s","e","n","d"," ","e","m","a","i","l">>, <<"e","m","a","i","l"," ","t","o">>, <<"s","e","n","d"," ","m","a","i","l">>})
    \/ /\ ContainsAny(l, {<<"e","m","a","i","l">>, <<"s","e","n","d">>, <<"m","a","i","l">>})
       /\ ~ContainsAny(l, {<<"c","o","n","t","a","c","t">>, <<"c","r","m">>, <<"p","i","p","e","d","r","i","v","e">>})
CalendarRule(l) ==
    ContainsAny(l, {<<"c","a","l","e","n","d","a","r">>, <<"m","e","e","t","i","n","g">>, <<"s","c","h","e","d","u","l","e">>, <<"a","v","a","i","l","a","b","l","e">>, <<"c","a","l","e","n","d","l","y">>})

\* C12: a new request takes exactly one branch, the first of CRM, email,
\* calendar whose rule it matches, and the general branch only when it
\* matches none of the three.
C12_FirstMatchRouting ==
    routed = "request" =>
        LET l == Lower(last_input)
        IN /\ branch \in {"crm", "email", "calendly", "general"}
           /\ CrmRule(l) => branch = "crm"
           /\ (EmailRule(l) /\ ~CrmRule(l)) => branch = "email"
           /\ (CalendarRule(l) /\ ~EmailRule(l) /\ ~CrmRule(l)) => branch = "calendly"
           /\ branch = "general" => ~(CrmRule(l) \/ EmailRule(l) \/ CalendarRule(l))

\* a request matching all three rules has taken the CRM branch
C12_Witness ==
    /\ routed = "request"
    /\ CrmRule(Lower(last_input))
    /\ EmailRule(Lower(last_input))
    /\ CalendarRule(Lower(last_input))
    /\ branch = "crm"

\* ------------------------------------------- planner and draft generator

\* generate_draft has returned or raised
DraftAttempted == agent_pc \in {"drafted", "draft_raised"}
\* create_plan has returned the plan in hand
Planned == plan # None /\ plan_source = "create_plan"

\* C13: generate_draft never runs on a plan whose missing_info is non-empty,
\* that is, on a plan whose is_complete is false.
C13_NoDraftFromIncompletePlan ==
    DraftAttempted => (plan[1].missing_info = <<>> /\ plan[1].is_complete)

\* C14: in every plan create_plan returns, is_complete is true exactly when
\* missing_info is empty.
C14_CompleteIffNothingMissing ==
    Planned => (plan[1].is_complete <=> plan[1].missing_info = <<>>)

\* create_plan has returned a plan that is not complete
C14_Witness ==
    /\ Planned
    /\ plan[1].missing_info # <<>>
    /\ ~plan[1].is_complete

\* the ToolType a classifier's primary_tool names, GENERAL when it names none
NamedTool(name) ==
    IF \E t \in ToolTypes : name = Some(ToolValue[t])
    THEN CHOOSE t \in ToolTypes : name = Some(ToolValue[t])
    ELSE "GENERAL"

\* C15: for every result of the classifier, the plan of create_plan has
\* exactly one step, whose tool is the one primary_tool names (GENERAL when
\* it names none of the four) and whose parameters are the extracted
\* parameters, and required_tools holds that tool and no other.
C15_OneStepFromClassifier ==
    (Planned /\ ~analyses[1].raised) =>
        /\ Len(plan[1].steps) = 1
        /\ plan[1].steps[1].tool_required = NamedTool(analyses[1].primary_tool)
        /\ plan[1].steps[1].parameters = analyses[1].extracted_parameters
        /\ plan[1].required_tools = {NamedTool(analyses[1].primary_tool)}

\* create_plan has planned from a result that names calendly and carries
\* parameters
C15_Witness ==
    /\ Planned
    /\ ~analyses[1].raised
    /\ analyses[1].primary_tool = Some("calendly")
    /\ analyses[1].extracted_parameters # NoParameters
    /\ plan[1].steps[1].tool_required = "CALENDLY"

\* C16: when the classifier call of the query analysis raises, create_plan
\* returns a plan of a single GENERAL step with nothing missing and
\* is_complete true, whatever its later classifier call returns.
C16_FailedAnalysisGivesCompleteGeneralPlan ==
    (agent_pc # "idle" /\ analyses # <<>> /\ analyses[1].raised) =>
        /\ plan # None
        /\ Len(plan[1].steps) = 1
        /\ plan[1].steps[1].tool_required = "GENERAL"
        /\ plan[1].missing_info = <<>>
        /\ plan[1].is_complete

\* the task type the steps call for: that of the tool with the most steps,
\* and among tools with as many steps that of the one met first
TaskTypeByFrequency(steps) ==
    LET used == {steps[i].tool_required : i \in 1..Len(steps)}
        Count(t) == Cardinality({i \in 1..Len(steps) : steps[i].tool_required = t})
        First(t) == Min({i \in 1..Len(steps) : steps[i].tool_required = t})
        top == {t \in used : \A u \in used : Count(u) <= Count(t)}
        winner == CHOOSE t \in top : \A u \in top : First(t) <= First(u)
    IN IF steps = <<>> THEN "EMAIL"
       ELSE IF winner = "GMAIL" THEN "EMAIL"
       ELSE IF winner = "PIPEDRIVE" THEN "CRM_CONTACT"
       ELSE "GENERAL_RESPONSE"

\* C17: the task type of generate_draft is that of the tool most frequent
\* among the steps, the earliest such tool in step order on a tie: EMAIL for
\* GMAIL, CRM_CONTACT for PIPEDRIVE, GENERAL_RESPONSE for GENERAL and
\* CALENDLY, EMAIL for no steps. (Only the email generation can fail, so a
\* failure shows the type EMAIL.)
C17_TaskTypeFromMostFrequentTool ==
    DraftAttempted =>
        IF draft # None
        THEN draft[1].task_type = TaskTypeByFrequency(plan[1].steps)
        ELSE TaskTypeByFrequency(plan[1].steps) = "EMAIL"

\* a draft for steps PIPEDRIVE, GENERAL, GENERAL, PIPEDRIVE: a tie, which the
\* tool met first wins though the other reaches two steps before it
C17_Witness ==
    /\ draft # None
    /\ Len(plan[1].steps) = 4
    /\ plan[1].steps[1].tool_required = "PIPEDRIVE"
    /\ plan[1].steps[2].tool_required = "GENERAL"
    /\ plan[1].steps[3].tool_required = "GENERAL"
    /\ plan[1].steps[4].tool_required = "PIPEDRIVE"
    /\ draft[1].task_type = "CRM_CONTACT"

\* the recipient of the parameters: the first non-empty of to, recipient,
\* recipient_email, None when there is none
Recipient(parameters) ==
    IF Truthy(parameters.to) THEN parameters.to
    ELSE IF Truthy(parameters.recipient) THEN parameters.recipient
    ELSE IF Truthy(parameters.recipient_email) THEN parameters.recipient_email
    ELSE None

\* the recipient of the first GMAIL step of the plan in hand
PlanRecipient ==
    LET gmail == {i \in 1..Len(plan[1].steps) : plan[1].steps[i].tool_required = "GMAIL"}
    IN IF gmail = {} THEN None ELSE Recipient(plan[1].steps[Min(gmail)].parameters)

\* generate_draft has run on a plan whose task type is EMAIL
EmailAttempted == DraftAttempted /\ DetermineTaskType(plan[1]) = "EMAIL"

\* C18: for a plan of task type EMAIL, generate_draft returns a Draft only if
\* the first GMAIL step has a recipient under to, recipient or
\* recipient_email, in that priority, and the Draft's to is that recipient;
\* with none of the three it raises and returns no Draft.
C18_EmailDraftNeedsRecipient ==
    EmailAttempted =>
        /\ draft # None =>
              (PlanRecipient # None /\ draft[1].content.to = PlanRecipient[1])
        /\ PlanRecipient = None => (draft = None /\ agent_pc = "draft_raised")

\* a Draft for a first GMAIL step with an empty to, a recipient and a
\* recipient_email: it goes to the recipient
C18_Witness ==
    /\ EmailAttempted
    /\ draft # None
    /\ \E i \in 1..Len(plan[1].steps) : plan[1].steps[i].parameters = R_EmptyTo
    /\ draft[1].content.to = <<"r","c","p","t","@","x",".","c","o","m">>

\* the language model gave generate_draft both a subject and a body
ModelGaveContent ==
    /\ llm_client = "available"
    /\ completion # None
    /\ completion[1].kind = "json"
    /\ Truthy(completion[1].subject)
    /\ Truthy(completion[1].body)

\* C19: for a plan of task type EMAIL, when the language model is absent or
\* unavailable, raises, or answers without both subject and body,
\* generate_draft raises and returns no Draft; no EMAIL Draft has an empty
\* subject or body.
C19_NoEmailDraftWithoutModelContent ==
    EmailAttempted =>
        /\ ~ModelGaveContent => (draft = None /\ agent_pc = "draft_raised")
        /\ draft # None =>
              (draft[1].content.subject # <<>> /\ draft[1].content.body # <<>>)

\* generate_draft has raised on a response that holds a subject and no body
C19_Witness ==
    /\ EmailAttempted
    /\ llm_client = "available"
    /\ completion = Some(CompletionJson(Some(S_Good), None))
    /\ agent_pc = "draft_raised"
    /\ draft = None

\* the pieces of the query between its commas, trimmed and in lower case
QueryFragments(query) ==
    LET Comma(i) == i < 1 \/ i > Len(query) \/ query[i] = ","
    IN {Strip(Lower(SubSeq(query, i, j))) :
           <<i, j>> \in {x \in (1..Len(query)) \X (1..Len(query)) :
                            /\ x[1] <= x[2]
                            /\ Comma(x[1] - 1)
                            /\ Comma(x[2] + 1)
                            /\ \A k \in x[1]..x[2] : query[k] # ","}}

\* a subject and a body meet the rules of an email for the query
MeetsEmailRules(query, subject, body) ==
    /\ Len(subject) >= 3
    /\ Len(body) >= 20
    /\ \E g \in {<<"h","e","l","l","o">>, <<"h","i">>, <<"d","e","a","r">>, <<"g","r","e","e","t","i","n","g","s">>} : Contains(Lower(body), g)
    /\ \E g \in {<<"r","e","g","a","r","d","s">>, <<"s","i","n","c","e","r","e","l","y">>, <<"b","e","s","t">>, <<"t","h","a","n","k"," ","y","o","u">>, <<"t","h","a","n","k","s">>} :
          Contains(Lower(body), g)
    /\ \A f \in {<<"t","h","e"," ","u","s","e","r"," ","a","s","k","e","d">>, <<"u","s","e","r"," ","r","e","q","u","e","s","t">>, <<"y","o","u"," ","a","s","k","e","d"," ","m","e"," ","t","o">>,
                  <<"a","s"," ","r","e","q","u","e","s","t","e","d"," ","b","y">>, <<"t","h","e"," ","u","s","e","r"," ","w","a","n","t","s">>, <<"u","s","e","r"," ","q","u","e","r","y">>,
                  <<"b","a","s","e","d"," ","o","n"," ","y","o","u","r"," ","r","e","q","u","e","s","t"," ","t","o">>} : ~Contains(Lower(body), f)
    /\ \A f \in QueryFragments(query) : Len(f) > 10 => ~Contains(Lower(body), f)

Drafted(task_type) ==
    /\ agent_pc = "drafted"
    /\ draft # None
    /\ draft[1].task_type = task_type

\* the keys of the parameters of a step
ParameterKeys ==
    {"to", "recipient", "recipient_email", "subject", "email_content_purpose",
     "summary_content", "content", "action", "query", "name", "email"}

\* C21: the content of a CRM_CONTACT Draft is the parameters of the first
\* PIPEDRIVE step of the plan that have a value, with the key action set to
\* the action of the step when it has one and to create_contact otherwise; no
\* key of the content maps to null, and the language model is not called.
C21_CrmContentIsStepParameters ==
    Drafted("CRM_CONTACT") =>
        LET parameters == StepsFor(plan[1], "PIPEDRIVE")[1].parameters
            content == draft[1].content
        IN /\ \A key \in ParameterKeys \ {"action"} : content[key] = parameters[key]
           /\ content.action = IF parameters.action # None THEN parameters.action
                               ELSE Some(<<"c","r","e","a","t","e","_","c","o","n","t","a","c","t">>)
           /\ content.null_keys = {}
           /\ completion = None

\* generate_draft has run on a plan of task type GENERAL_RESPONSE
GeneralAttempted == DraftAttempted /\ DetermineTaskType(plan[1]) = "GENERAL_RESPONSE"

\* the answer of the language model to generate_draft: the text of its
\* response without the white space around it, empty when there is no
\* client, no API key, an exception or a response without content
ModelAnswer ==
    IF llm_client = "available" /\ completion # None /\ completion[1].kind = "text"
    THEN Strip(completion[1].text)
    ELSE <<>>

\* C22: for a plan of task type GENERAL_RESPONSE generate_draft returns a
\* Draft and never raises, whatever the language model does; the message of
\* the Draft is the answer of the model when it is not empty and the fixed
\* capability summary otherwise.
C22_GeneralDraftNeverFails ==
    GeneralAttempted =>
        /\ Drafted("GENERAL_RESPONSE")
        /\ draft[1].content.message =
              IF ModelAnswer # <<>> THEN ModelAnswer ELSE FallbackMessage

\* the model raised and the Draft holds the capability summary
C22_Witness ==
    /\ GeneralAttempted
    /\ llm_client = "available"
    /\ completion = Some(CompletionRaises)
    /\ Drafted("GENERAL_RESPONSE")
    /\ draft[1].content.message = FallbackMessage

\* review_draft has returned the review of a Draft of the given task type
Reviewed(task_type) == last_review # None /\ last_review[1].before.task_type = task_type

\* an Optional[str] holds a text with the given piece in it
Holds(o, piece) == Truthy(o) /\ Contains(o[1], piece)
\* the same, whatever the case of the letters of the text
HoldsAnyCase(o, piece) == Truthy(o) /\ Contains(Lower(o[1]), piece)

\* the body of an email content has 10 characters or more
LongBody(content) == Truthy(content.body) /\ Len(content.body[1]) >= 10

\* C23 as stated: the review of an EMAIL Draft has the score 1.0 if and only
\* if to holds "@", subject is not empty, body has 10 characters or more and
\* body does not hold the substring "placeholder".
C23_FullScoreIffWellFormed ==
    Reviewed("EMAIL") =>
        LET content == last_review[1].before.content
        IN (last_review[1].result.confidence_score = FloatLiteral[10])
           <=> /\ Holds(content.to, <<"@">>)
               /\ Truthy(content.subject)
               /\ LongBody(content)
               /\ ~Holds(content.body, <<"p","l","a","c","e","h","o","l","d","e","r">>)

\* C23, amended: the review of an EMAIL Draft has the score 1.0 if and only
\* if to holds "@", subject is not empty, body has 10 characters or more and
\* body does not hold the word placeholder in any case of its letters.
C23_FullScoreIffWellFormedAnyCase ==
    Reviewed("EMAIL") =>
        LET content == last_review[1].before.content
        IN (last_review[1].result.confidence_score = FloatLiteral[10])
           <=> /\ Holds(content.to, <<"@">>)
               /\ Truthy(content.subject)
               /\ LongBody(content)
               /\ ~HoldsAnyCase(content.body, <<"p","l","a","c","e","h","o","l","d","e","r">>)

\* a well-formed email whose body holds "PlaceHolder" is reviewed below 1.0
C23_Witness ==
    /\ Reviewed("EMAIL")
    /\ last_review[1].before.content =
          EmailContent(Some(<<"b","o","b","@","c","o",".","c","o","m">>), Some(<<"R","e","p","o","r","t">>), Some(B_PlaceHolder))
    /\ last_review[1].result.confidence_score = FloatLiteral[9]
    /\ last_review[1].result.issues = <<>>

\* <<x>> when the condition holds, nothing otherwise
When(condition, x) == IF condition THEN <<x>> ELSE <<>>
\* the sum of a sequence of numbers
RECURSIVE SumOf(_)
SumOf(numbers) ==
    IF numbers = <<>> THEN 0 ELSE Head(numbers) + SumOf(Tail(numbers))

\* to is there and has no "@"
NoAt(content) == Truthy(content.to) /\ ~Contains(content.to[1], <<"@">>)

\* the penalties of the EMAIL rubric that apply to a content, in tenths
EmailPenalties(content) ==
    When(~Truthy(content.to), 3) \o When(~Truthy(content.subject), 2)
    \o When(~LongBody(content), 3) \o When(NoAt(content), 2)
    \o When(HoldsAnyCase(content.body, <<"p","l","a","c","e","h","o","l","d","e","r">>), 1)

\* C24: the score of an EMAIL Draft is max(0, 1.0 minus the sum of the
\* penalties that apply): 0.3 for a missing to, 0.2 for a missing subject,
\* 0.3 for a body that is missing or shorter than 10 characters, 0.2 for a
\* to without "@", 0.1 for a body that holds placeholder (read here in any
\* case of its letters); each of the first four adds one issue, the fifth a
\* suggestion and no issue. The body "hi" with a valid to and a subject gives
\* exactly 0.7 and the issue "Email body is too short or missing".
C24_EmailScoreIsRubric ==
    Reviewed("EMAIL") =>
        LET content == last_review[1].before.content
            result == last_review[1].result
        IN /\ result.confidence_score =
                 FloatLiteral[Max({0, 10 - SumOf(EmailPenalties(content))})]
           /\ result.issues =
                 When(~Truthy(content.to), "Missing recipient email address")
                 \o When(~Truthy(content.subject), "Missing email subject")
                 \o When(~LongBody(content), "Email body is too short or missing")
                 \o When(NoAt(content), "Invalid email address format")
           /\ Len(result.suggestions) =
                 Len(When(HoldsAnyCase(content.body, <<"p","l","a","c","e","h","o","l","d","e","r">>), 1))

\* the penalties of the CRM rubric that apply to a content, in tenths
CrmPenalties(content) ==
    LET action == IF content.action = None /\ "action" \notin content.null_keys
                  THEN Some(<<"c","r","e","a","t","e","_","c","o","n","t","a","c","t">>) ELSE content.action
        create == action = Some(<<"c","r","e","a","t","e","_","c","o","n","t","a","c","t">>)
        malformed == Truthy(content.email) /\ ~Contains(content.email[1], <<"@">>)
    IN When(create /\ ~Truthy(content.name) /\ ~Truthy(content.email), 4)
       \o When(action = Some(<<"u","p","d","a","t","e","_","c","o","n","t","a","c","t">>) /\ ~Truthy(content.contact_id), 4)
       \o When(action = Some(<<"s","e","a","r","c","h","_","c","o","n","t","a","c","t","s">>) /\ ~Truthy(content.query), 3)
       \o When(malformed, 2) \o When(malformed /\ create, 2)
       \o When(\E key \in CrmKeys : HoldsAnyCase(content[key], <<"p","l","a","c","e","h","o","l","d","e","r">>), 2)

\* C25: the score of a CRM Draft is max(0, 1.0 minus the penalties that
\* apply), the action being the one of the content and create_contact when
\* it has none: 0.4 for create_contact with neither name nor email, 0.4 for
\* update_contact without contact_id, 0.3 for search_contacts without query,
\* 0.2 for an email without "@" under any action and 0.2 more under
\* create_contact, 0.2 for placeholder anywhere in the content; the phone and
\* notes suggestions cost nothing.
C25_CrmScoreIsRubric ==
    Reviewed("CRM_CONTACT") =>
        last_review[1].result.confidence_score =
            FloatLiteral[Max({0, 10 - SumOf(CrmPenalties(last_review[1].before.content))})]

\* the message of a general content, trimmed; empty when there is none
TrimmedMessage(content) ==
    IF content.message = None THEN <<>> ELSE Strip(content.message[1])

InUnitInterval(x) == FloatGe(x, FloatLiteral[0]) /\ FloatGe(FloatLiteral[10], x)

\* C27: for a Draft of any task type the confidence_score of the ReviewResult
\* lies in [0, 1], and its confidence_level is HIGH exactly when the score is
\* at least 0.8, MEDIUM exactly when it is at least 0.6 and below 0.8, and
\* LOW otherwise.
C27_LevelFollowsScore ==
    last_review # None =>
        LET score == last_review[1].result.confidence_score
            level == last_review[1].result.confidence_level
        IN /\ InUnitInterval(score)
           /\ level = "HIGH" <=> FloatGe(score, FloatLiteral[8])
           /\ level = "MEDIUM" <=>
                 (FloatGe(score, FloatLiteral[6]) /\ FloatLess(score, FloatLiteral[8]))
           /\ level = "LOW" <=> FloatLess(score, FloatLiteral[6])

\* a score of exactly 0.8 has the level HIGH
C27_Witness ==
    /\ last_review # None
    /\ last_review[1].result.confidence_score = FloatLiteral[8]
    /\ last_review[1].result.confidence_level = "HIGH"

\* C28: for every Draft and every threshold, requires_user_review is (score
\* below the threshold or some issue) and approved is (score at least the
\* threshold and no issue); approved is the negation of
\* requires_user_review, and no ReviewResult with an issue is approved,
\* whatever its confidence level.
C28_ApprovalRule ==
    last_review # None =>
        LET result == last_review[1].result
            below == FloatLess(result.confidence_score, confidence_threshold[1])
        IN /\ result.requires_user_review <=> (below \/ result.issues # <<>>)
           /\ result.approved <=> (~below /\ result.issues = <<>>)
           /\ result.approved <=> ~result.requires_user_review
           /\ result.issues # <<>> => ~result.approved

\* a Draft with an issue and a score of the level HIGH, above the threshold,
\* is not approved
C28_Witness ==
    /\ last_review # None
    /\ last_review[1].result.issues # <<>>
    /\ last_review[1].result.confidence_level = "HIGH"
    /\ FloatGe(last_review[1].result.confidence_score, confidence_threshold[1])
    /\ ~last_review[1].result.approved
    /\ last_review[1].result.requires_user_review

NotAvailable(tool_type) == ToolExecution(tool_type, FALSE, Some("Tool not available"))

\* C30: executing a plan with one CALENDLY step and no CALENDLY collaborator
\* does not raise and gives a single failed ToolExecution with the error
\* "Tool not available"; a step whose tool is missing never keeps the other
\* steps from being executed: every step has its ToolExecution, and the ones
\* with a collaborator carry what it returned.
C30_MissingToolFailsOneStep ==
    executed # None =>
        LET steps == executed[1].steps
            executions == executed[1].executions
        IN /\ executions # None
           /\ Len(executions[1]) = Len(steps)
           /\ (steps = <<[tool_required |-> "CALENDLY", action |-> None]>>
               /\ "CALENDLY" \notin executor_tools)
                 => executions[1] = <<NotAvailable("CALENDLY")>>
           /\ \A i \in 1..Len(steps) :
                 /\ (~IsGeneralStep(steps[i]) /\ steps[i].tool_required \notin executor_tools)
                       => executions[1][i] = NotAvailable(steps[i].tool_required)
                 /\ CallsCollaborator(steps[i], executor_tools)
                       => /\ executions[1][i].success = executed[1].outcomes[i].success
                          /\ executions[1][i].error = executed[1].outcomes[i].error

\* a CALENDLY step without collaborator has failed and the GMAIL step after
\* it has been executed
C30_Witness ==
    /\ executed # None
    /\ executor_tools = {"GMAIL"}
    /\ executed[1].steps = <<[tool_required |-> "CALENDLY", action |-> None],
                             [tool_required |-> "GMAIL", action |-> None]>>
    /\ executed[1].executions =
          Some(<<NotAvailable("CALENDLY"), ToolExecution("GMAIL", TRUE, None)>>)

\* ------------------------------------------------------------ C31 .. C40

\* the last iteration handled a calendar or a general request
BypassHandled == routed = "request" /\ branch \in {"calendly", "general"}

\* C34: calendar and general requests never enter the slot-filling loop:
\* once such a request has been handled no task type is pending, and the
\* next line, "cancel" and "stop" included, is taken as a new request and
\* not as a reply to a pending dialogue.
C34_BypassLeavesSessionIdle ==
    [][BypassHandled =>
          /\ current_task_type = "None"
          /\ routed' \notin {"answer", "cancel"}]_vars

\* C36: an awaited field belongs to the pending task type: a prompt field
\* (task, field) implies that the task type is task, and no task type
\* implies no prompt field.
C36_PromptFieldMatchesTask ==
    /\ current_prompt_field # None => current_task_type = current_prompt_field[1]
    /\ current_task_type = "None" => current_prompt_field = None

\* C37: when neither an email nor a CRM dialogue is pending every pending
\* email field and every pending CRM field is null.
C37_NothingCarriedOver ==
    ~InDialogue =>
        /\ \A k \in DOMAIN pending_email : pending_email[k] = None
        /\ \A k \in DOMAIN pending_crm : pending_crm[k] = None

\* an answer has left an email dialogue awaiting its subject
C36_Witness ==
    /\ current_prompt_field = <<"email", "subject">>
    /\ current_task_type = "email"
    /\ routed = "answer"

\* a CRM dialogue has been completed by an answer: the contact was handed to
\* the tool and nothing is left of it
C37_Witness ==
    /\ routed = "answer"
    /\ calls # <<>>
    /\ calls[1].tool = "PIPEDRIVE"
    /\ current_task_type = "None"
    /\ pending_crm = EmptyPendingCrm
    /\ pending_email = EmptyPendingEmail

\* the answers within which a dialogue of the pending task type completes
AnswerLimit == IF current_task_type = "email" THEN 3 ELSE 2

\* C39: without a cancel and with only valid answers, an email dialogue has
\* completed after at most 3 answers and a CRM dialogue after at most 2 (a
\* dialogue still pending has had fewer valid answers than that), and no
\* valid answer leaves the dialogue asking for the same field again.
C39_ValidAnswersComplete ==
    /\ [](InDialogue /\ valid_answers # None => valid_answers[1] < AnswerLimit)
    /\ [][(/\ InDialogue /\ current_prompt_field # None
           /\ routed' = "answer"
           /\ ~InvalidAnswer(current_prompt_field, last_input')) =>
             current_prompt_field' # current_prompt_field]_vars

\* two valid answers have left an email dialogue awaiting its last field
C39_Witness ==
    /\ routed = "answer"
    /\ current_task_type = "email"
    /\ valid_answers = Some(2)
    /\ current_prompt_field = <<"email", "content">>

\* the tool of the pending dialogue
DialogueTool == IF current_task_type = "email" THEN "GMAIL" ELSE "PIPEDRIVE"

\* C38: an answer that completes a dialogue invokes the dialogue's tool
\* exactly once (not at all when the tool is not configured) and clears the
\* dialogue's pending fields, the task type and the prompt field in the same
\* turn, whatever the tool call returned; no answer invokes a tool twice.
C38_CompletionCallsOnceAndClears ==
    [][(InDialogue /\ routed' = "answer") =>
          /\ Len(calls') <= 1
          /\ (calls' # <<>> \/ current_task_type' = "None") =>
                /\ Len(calls') = IF DialogueTool \in tool_agents THEN 1 ELSE 0
                /\ \A i \in 1..Len(calls') : calls'[i].tool = DialogueTool
                /\ current_task_type = "email" => pending_email' = EmptyPendingEmail
                /\ current_task_type = "crm" => pending_crm' = EmptyPendingCrm
                /\ current_task_type' = "None"
                /\ current_prompt_field' = None]_vars

\* a content answer has completed an email dialogue with a send that failed:
\* the tool was called once, no success was notified, nothing is kept
C38_Witness ==
    /\ routed = "answer"
    /\ last_input = In_Content
    /\ Len(calls) = 1
    /\ calls[1].tool = "GMAIL"
    /\ notified = <<>>
    /\ current_task_type = "None"
    /\ current_prompt_field = None
    /\ pending_email = EmptyPendingEmail

\* C40: while an email or CRM dialogue is pending, help, status, memory and
\* clear are executed as commands and leave the pending fields, the task
\* type and the awaited field unchanged, and the next line that is no
\* command is still taken as a reply; quit, exit and q end the loop and
\* invoke no tool.
C40_CommandsLeaveDialogue ==
    [][/\ (InDialogue /\ Lower(last_input') \in CommandWords \ QuitWords) =>
             /\ routed' = "command"
             /\ running'
             /\ calls' = <<>>
             /\ UNCHANGED <<pending_email, pending_crm, current_task_type,
                            current_prompt_field>>
       /\ (/\ InDialogue /\ routed = "command"
           /\ last_input' # <<>>
           /\ Lower(last_input') \notin CommandWords) =>
             routed' \in {"answer", "cancel"}
       /\ Lower(last_input') \in QuitWords =>
             /\ routed' = "quit"
             /\ ~running'
             /\ calls' = <<>>]_vars

\* "Status" was typed while the subject of an email was awaited
C40_Witness ==
    /\ routed = "command"
    /\ last_input = In_Status
    /\ current_task_type = "email"
    /\ current_prompt_field = <<"email", "subject">>

\* C33: an exception raised in an iteration of the read loop is caught
\* there, a task_failed event is appended to the notification log, and the
\* loop goes on reading.
C33_ExceptionNotifiedLoopGoesOn ==
    routed = "raised" => (running /\ In("task_failed", notified))

\* C35: an interrupt at the read loop aborts the turn, the loop keeps on
\* reading, and the session is left as it was.
C35_InterruptKeepsLoop ==
    [][routed' = "interrupted" =>
          /\ running'
          /\ UNCHANGED <<pending_email, pending_crm, current_task_type,
                         current_prompt_field>>]_vars

\* C31: execute of a tool agent returns a ToolExecution and never raises,
\* whatever the action name and the parameters; success comes with no error
\* and failure with an error.
C31_ExecuteAlwaysReturns ==
    tool_reply # None =>
        LET outcome == tool_reply[1].outcome
        IN /\ ~outcome.raised
           /\ outcome.execution # None
           /\ outcome.execution[1].tool_type = tool_reply[1].tool_type
           /\ outcome.execution[1].success => outcome.execution[1].error = None
           /\ ~outcome.execution[1].success => outcome.execution[1].error # None

\* the Pipedrive agent was asked for an action it does not know and returned
\* a failure that names it
C31_Witness ==
    /\ tool_reply # None
    /\ tool_reply[1].tool_type = "PIPEDRIVE"
    /\ tool_reply[1].action = "archive"
    /\ tool_reply[1].outcome =
          Return(ToolExecution("PIPEDRIVE", FALSE, Some("Unknown Pipedrive action")))

\* C32: after n successful calls of store_interaction on an empty store the
\* history holds the min(n, 100) entries stored last, in the order in which
\* they were stored.
C32_HistoryKeepsLatest ==
    interactions # None =>
        LET n == Len(stored)
            m == IF n < HistoryCap THEN n ELSE HistoryCap
        IN /\ Len(interactions[1]) = m
           /\ \A i \in 1..m : interactions[1][i] = stored[n - m + i]

\* 102 entries have been stored: the history holds 100, the third the oldest
C32_Witness ==
    /\ Len(stored) = HistoryCap + 2
    /\ interactions # None
    /\ Len(interactions[1]) = HistoryCap
    /\ interactions[1][1] = 3
    /\ interactions[1][HistoryCap] = HistoryCap + 2
====
